---- MODULE Spec2Model ----
(***************************************************************************)
(* Recipe platform: the paginated query engine (repositories over the      *)
(* document store, in-memory services) and the domain services' create /   *)
(* update / delete handlers with their ownership and uniqueness checks.    *)
(*                                                                         *)
(* Strings that the code inspects (toLowerCase, includes, ===, sort) are   *)
(* sequences of one-character strings.  An optional value (a JavaScript    *)
(* value that may be undefined) is the set {} or {v}.                      *)
(***************************************************************************)
EXTENDS Integers, Sequences, FiniteSets, TLC

VARIABLES
    variant,        \* which generation of the services is deployed
    recipes,        \* recipe records in insertion order
    categories,     \* category records in insertion order
    ingredients,    \* ingredient records in insertion order
    reviews,        \* review records in insertion order
    idCounter,      \* the next id of each kind of entity
    now,            \* the clock read by new Date()
    resp,           \* what the last handler returned or threw
    calls           \* the service calls suspended at an await

vars == <<variant, recipes, categories, ingredients, reviews, idCounter, now, resp,
          calls>>

stores == <<recipes, categories, ingredients, reviews>>

(***************************************************************************)
(* A service method is an async function: it runs to its next await, is    *)
(* suspended there with its local variables, and other calls run before it *)
(* resumes.  calls holds the suspended calls, one per slot.                *)
(***************************************************************************)
MaxCalls == 2

NoCall == [op |-> "none"]

NoCalls == [slot \in 1..MaxCalls |-> NoCall]

(***************************************************************************)
(* Bounds of the model.                                                    *)
(***************************************************************************)
MaxRecipes == 2
MaxCategories == 2
MaxIngredients == 2
MaxReviews == 2
MaxPage == 3
MaxLimit == 2
MaxTime == 1
MaxStored == 3

(***************************************************************************)
(* Optional values.                                                        *)
(***************************************************************************)
Undefined == {}
Some(v) == {v}
IsDefined(o) == o # {}
Val(o) == CHOOSE v \in o : TRUE

(***************************************************************************)
(* Strings.                                                                *)
(***************************************************************************)
Chars == {"A", "B", "a", "b"}

CharCode == [c \in Chars |->
    IF c = "A" THEN 65 ELSE IF c = "B" THEN 66 ELSE IF c = "a" THEN 97 ELSE 98]

LowerChar == [c \in Chars |->
    IF c = "A" THEN "a" ELSE IF c = "B" THEN "b" ELSE c]

toLowerCase(s) == [i \in 1..Len(s) |-> LowerChar[s[i]]]

includes(s, t) ==
    \E i \in 0..(Len(s) - Len(t)) : SubSeq(s, i + 1, i + Len(t)) = t

\* a non-empty string is truthy, the empty string and undefined are falsy
Truthy(o) == IsDefined(o) /\ Val(o) # <<>>

\* -1, 0, 1: code point order of two strings
RECURSIVE StrCmp(_, _)
StrCmp(s, t) ==
    IF s = <<>> /\ t = <<>> THEN 0
    ELSE IF s = <<>> THEN -1
    ELSE IF t = <<>> THEN 1
    ELSE IF CharCode[Head(s)] < CharCode[Head(t)] THEN -1
    ELSE IF CharCode[Head(s)] > CharCode[Head(t)] THEN 1
    ELSE StrCmp(Tail(s), Tail(t))

NumCmp(a, b) == IF a < b THEN -1 ELSE IF a > b THEN 1 ELSE 0

(***************************************************************************)
(* Array helpers of the JavaScript runtime.                                *)
(***************************************************************************)
\* Array.prototype.filter
filter(arr, P(_)) == SelectSeq(arr, P)

\* Array.prototype.slice(start, end) with its clamping of negative indices
slice(arr, start, end) ==
    LET n == Len(arr)
        s == IF start < 0 THEN (IF n + start < 0 THEN 0 ELSE n + start)
             ELSE (IF start > n THEN n ELSE start)
        e == IF end < 0 THEN (IF n + end < 0 THEN 0 ELSE n + end)
             ELSE (IF end > n THEN n ELSE end)
    IN  IF s < e THEN SubSeq(arr, s + 1, e) ELSE <<>>

\* Math.ceil(a / b) for b # 0
ceilDiv(a, b) ==
    IF b > 0 THEN -((-a) \div b) ELSE -(a \div (-b))

\* x put before the first element it is strictly before (after its equals)
insertSorted(x, arr, Before(_, _)) ==
    LET hits == {i \in 1..Len(arr) : Before(x, arr[i])}
        k == IF hits = {} THEN Len(arr) + 1
             ELSE CHOOSE i \in hits : \A j \in hits : i <= j
    IN  SubSeq(arr, 1, k - 1) \o <<x>> \o SubSeq(arr, k, Len(arr))

\* Array.prototype.sort: stable, Before(a, b) iff compare(a, b) < 0
sort(arr, Before(_, _)) ==
    LET f[n \in 0..Len(arr)] ==
            IF n = 0 THEN <<>> ELSE insertSorted(arr[n], f[n - 1], Before)
    IN  f[Len(arr)]

Range(arr) == {arr[i] : i \in 1..Len(arr)}

(***************************************************************************)
(* The document store: a query is a conjunction of predicates on fields,   *)
(* one sort order (ties in document id order, in the same direction), an   *)
(* offset and a limit; count() counts the documents the predicates match.  *)
(***************************************************************************)
StringFields == {"title", "name"}

FieldCmp(a, b, field) ==
    IF field \in StringFields THEN StrCmp(a[field], b[field])
    ELSE NumCmp(a[field], b[field])

OrderedBefore(a, b, srt) ==
    LET c == FieldCmp(a, b, srt.field)
    IN  IF srt.order = "asc" THEN c < 0 \/ (c = 0 /\ a.id < b.id)
        ELSE c > 0 \/ (c = 0 /\ a.id > b.id)

\* query.orderBy(field, order).get() over the documents docs
queryGet(docs, srt) ==
    [i \in 1..Cardinality(docs) |->
        CHOOSE x \in docs :
            Cardinality({y \in docs : OrderedBefore(y, x, srt)}) = i - 1]

\* query.count().get()
queryCount(docs) == Cardinality(docs)

\* query.offset(offset).limit(limit).get(), for offset >= 0 and limit >= 1
queryOffsetLimit(docs, srt, offset, limit) ==
    LET all == queryGet(docs, srt)
        last == IF offset + limit < Len(all) THEN offset + limit ELSE Len(all)
    IN  SubSeq(all, offset + 1, last)

\* collection.get(): every document, in document id order
collectionGet(coll) == queryGet(Range(coll), [field |-> "id", order |-> "asc"])

(***************************************************************************)
(* Responses.                                                              *)
(***************************************************************************)
NoError == ""

PaginatedResponse(op, q, data, total, totalPages) ==
    [op |-> op, args |-> q, err |-> NoError, data |-> data,
     total |-> total, totalPages |-> totalPages]

\* paginateQuery with the page number taken as the number of pages to skip
paginateQuerySkippingPage(op, q, docs, srt) ==
    LET total == queryCount(docs)
        offset == q.page * q.limit
        data == queryOffsetLimit(docs, srt, offset, q.limit)
        totalPages == ceilDiv(total, q.limit)
    IN  PaginatedResponse(op, q, data, total, totalPages)

\* BaseRepository.paginateQuery: count and page are two store reads
paginateQuery(op, q, docs, srt) ==
    LET total == queryCount(docs)
        offset == (q.page - 1) * q.limit
        data == queryOffsetLimit(docs, srt, offset, q.limit)
        totalPages == ceilDiv(total, q.limit)
    IN  PaginatedResponse(op, q, data, total, totalPages)

\* manual pagination with slice given the limit for its end index
manualPaginationEndAtLimit(op, q, list) ==
    LET total == Len(list)
        totalPages == ceilDiv(total, q.limit)
        start == (q.page - 1) * q.limit
        data == slice(list, start, q.limit)
    IN  PaginatedResponse(op, q, data, total, totalPages)

\* the "manual pagination" block shared by the memory-filtered paths
manualPagination(op, q, list) ==
    LET total == Len(list)
        totalPages == ceilDiv(total, q.limit)
        start == (q.page - 1) * q.limit
        data == slice(list, start, start + q.limit)
    IN  PaginatedResponse(op, q, data, total, totalPages)

(***************************************************************************)
(* RecipeRepository.findAll                                                *)
(***************************************************************************)
DefaultRecipeSort == [field |-> "createdAt", order |-> "desc"]

\* the where() clauses pushed to the store
RecipeStoreMatch(r, f) ==
    /\ IsDefined(f.difficulty) => r.difficulty = Val(f.difficulty)
    /\ IsDefined(f.createdBy) => r.createdBy = Val(f.createdBy)
    /\ IsDefined(f.categoryId) => Val(f.categoryId) \in Range(r.categoryIds)
    /\ IsDefined(f.createdAfter) => r.createdAt >= Val(f.createdAfter)
    /\ IsDefined(f.createdBefore) => r.createdAt <= Val(f.createdBefore)

needsMemoryFiltering(f) ==
    \/ Truthy(f.search)
    \/ IsDefined(f.minPrepTime)
    \/ IsDefined(f.maxPrepTime)
    \/ IsDefined(f.minCookTime)
    \/ IsDefined(f.maxCookTime)
    \/ IsDefined(f.minServings)
    \/ IsDefined(f.maxServings)

\* the filter chain with the search term compared as typed
RecipeMemoryFilterCaseSensitive(list, f) ==
    LET bySearch(r) == Truthy(f.search) =>
            \/ includes(toLowerCase(r.title), Val(f.search))
            \/ includes(toLowerCase(r.description), Val(f.search))
        byMinPrep(r) == IsDefined(f.minPrepTime) => r.prepTime >= Val(f.minPrepTime)
        byMaxPrep(r) == IsDefined(f.maxPrepTime) => r.prepTime <= Val(f.maxPrepTime)
        byMinCook(r) == IsDefined(f.minCookTime) => r.cookTime >= Val(f.minCookTime)
        byMaxCook(r) == IsDefined(f.maxCookTime) => r.cookTime <= Val(f.maxCookTime)
        byMinServ(r) == IsDefined(f.minServings) => r.servings >= Val(f.minServings)
        byMaxServ(r) == IsDefined(f.maxServings) => r.servings <= Val(f.maxServings)
    IN  filter(filter(filter(filter(filter(filter(filter(list,
            bySearch), byMinPrep), byMaxPrep), byMinCook), byMaxCook),
            byMinServ), byMaxServ)

\* the chain of Array.filter calls applied to the fetched documents
RecipeMemoryFilter(list, f) ==
    LET searchLower == toLowerCase(Val(f.search))
        bySearch(r) == Truthy(f.search) =>
            \/ includes(toLowerCase(r.title), searchLower)
            \/ includes(toLowerCase(r.description), searchLower)
        byMinPrep(r) == IsDefined(f.minPrepTime) => r.prepTime >= Val(f.minPrepTime)
        byMaxPrep(r) == IsDefined(f.maxPrepTime) => r.prepTime <= Val(f.maxPrepTime)
        byMinCook(r) == IsDefined(f.minCookTime) => r.cookTime >= Val(f.minCookTime)
        byMaxCook(r) == IsDefined(f.maxCookTime) => r.cookTime <= Val(f.maxCookTime)
        byMinServ(r) == IsDefined(f.minServings) => r.servings >= Val(f.minServings)
        byMaxServ(r) == IsDefined(f.maxServings) => r.servings <= Val(f.maxServings)
    IN  filter(filter(filter(filter(filter(filter(filter(list,
            bySearch), byMinPrep), byMaxPrep), byMinCook), byMaxCook),
            byMinServ), byMaxServ)

findAllRecipes(coll, q) ==
    LET f == q.filters
        srt == IF IsDefined(q.sort) THEN Val(q.sort) ELSE DefaultRecipeSort
        docs == {r \in Range(coll) : RecipeStoreMatch(r, f)}
    IN  IF needsMemoryFiltering(f)
        THEN manualPagination("RecipeRepository.findAll", q,
                              RecipeMemoryFilter(queryGet(docs, srt), f))
        ELSE paginateQuery("RecipeRepository.findAll", q, docs, srt)

(***************************************************************************)
(* CategoryRepository.findAll                                              *)
(***************************************************************************)
DefaultCategorySort == [field |-> "name", order |-> "asc"]

CategoryMemoryFilter(list, f) ==
    LET searchLower == toLowerCase(Val(f.search))
        bySearch(c) ==
            \/ includes(toLowerCase(c.name), searchLower)
            \/ /\ Truthy(c.description)
               /\ includes(toLowerCase(Val(c.description)), searchLower)
    IN  filter(list, bySearch)

findAllCategories(coll, q) ==
    LET f == q.filters
        srt == IF IsDefined(q.sort) THEN Val(q.sort) ELSE DefaultCategorySort
        docs == Range(coll)
    IN  IF Truthy(f.search)
        THEN manualPagination("CategoryRepository.findAll", q,
                              CategoryMemoryFilter(queryGet(docs, srt), f))
        ELSE paginateQuery("CategoryRepository.findAll", q, docs, srt)

(***************************************************************************)
(* IngredientRepository.findByRecipeId                                     *)
(***************************************************************************)
DefaultIngredientSort == [field |-> "name", order |-> "asc"]

IngredientMemoryFilter(list, f) ==
    LET searchLower == toLowerCase(Val(f.search))
        bySearch(i) == includes(toLowerCase(i.name), searchLower)
    IN  filter(list, bySearch)

findIngredientsByRecipeId(coll, q) ==
    LET f == q.filters
        srt == IF IsDefined(q.sort) THEN Val(q.sort) ELSE DefaultIngredientSort
        docs == {i \in Range(coll) : i.recipeId = q.recipeId}
    IN  IF Truthy(f.search)
        THEN manualPagination("IngredientRepository.findByRecipeId", q,
                              IngredientMemoryFilter(queryGet(docs, srt), f))
        ELSE paginateQuery("IngredientRepository.findByRecipeId", q, docs, srt)

(***************************************************************************)
(* ReviewRepository.findByRecipeId / findByUserId                          *)
(***************************************************************************)
DefaultReviewSort == [field |-> "createdAt", order |-> "desc"]

ReviewRatingMatch(r, f) ==
    /\ IsDefined(f.minRating) => r.rating >= Val(f.minRating)
    /\ IsDefined(f.maxRating) => r.rating <= Val(f.maxRating)

findReviewsByRecipeId(coll, q) ==
    LET srt == IF IsDefined(q.sort) THEN Val(q.sort) ELSE DefaultReviewSort
        docs == {r \in Range(coll) :
                    r.recipeId = q.recipeId /\ ReviewRatingMatch(r, q.filters)}
    IN  paginateQuery("ReviewRepository.findByRecipeId", q, docs, srt)

findReviewsByUserId(coll, q) ==
    LET srt == IF IsDefined(q.sort) THEN Val(q.sort) ELSE DefaultReviewSort
        docs == {r \in Range(coll) :
                    r.userId = q.userId /\ ReviewRatingMatch(r, q.filters)}
    IN  paginateQuery("ReviewRepository.findByUserId", q, docs, srt)

(***************************************************************************)
(* Errors thrown by the services (AppError: message, code, status).        *)
(***************************************************************************)
AppError(op, q, message, code, status) ==
    [op |-> op, args |-> q, err |-> message, code |-> code, status |-> status]

\* the error code of the in-memory services and of the repository-backed ones
Code(v, code) == IF v = "memory" THEN "ERROR-1" ELSE code

(***************************************************************************)
(* The list operations of the in-memory services.                          *)
(***************************************************************************)
\* String.prototype.localeCompare: letters first, lower case before upper
localeCompare(s, t) ==
    LET c == StrCmp(toLowerCase(s), toLowerCase(t))
        flip(u) == [i \in 1..Len(u) |->
                      IF u[i] = LowerChar[u[i]] THEN "A" ELSE "a"]
    IN  IF c # 0 THEN c ELSE StrCmp(flip(s), flip(t))

newestFirst(a, b) == b.createdAt - a.createdAt < 0

byName(a, b) == localeCompare(a.name, b.name) < 0

memoryPagination(op, q, list) ==
    LET total == Len(list)
        totalPages == ceilDiv(total, q.limit)
        start == (q.page - 1) * q.limit
        end == start + q.limit
        data == slice(list, start, end)
    IN  PaginatedResponse(op, q, data, total, totalPages)

\* RecipeService.getAllRecipes(page, limit, filters)
getAllRecipes(map, q) ==
    LET f == q.filters
        byCategory(r) == IsDefined(f.categoryId) =>
                            Val(f.categoryId) \in Range(r.categoryIds)
        byDifficulty(r) == IsDefined(f.difficulty) =>
                            r.difficulty = Val(f.difficulty)
        byCreator(r) == IsDefined(f.createdBy) => r.createdBy = Val(f.createdBy)
        list == filter(filter(filter(map, byCategory), byDifficulty), byCreator)
    IN  memoryPagination("RecipeService.getAllRecipes", q, sort(list, newestFirst))

\* CategoryService.getAllCategories(page, limit)
getAllCategories(map, q) ==
    memoryPagination("CategoryService.getAllCategories", q, sort(map, byName))

RecipeNotFound(op, q) == AppError(op, q, "Recipe not found", "ERROR-1", 404)

recipeExists(map, id) == \E i \in 1..Len(map) : map[i].id = id

\* ReviewService.getReviewsByRecipeId(recipeId, page, limit)
getReviewsByRecipeId(recipeMap, map, q) ==
    LET ofRecipe(r) == r.recipeId = q.recipeId
    IN  IF ~recipeExists(recipeMap, q.recipeId)
        THEN RecipeNotFound("ReviewService.getReviewsByRecipeId", q)
        ELSE memoryPagination("ReviewService.getReviewsByRecipeId", q,
                              sort(filter(map, ofRecipe), newestFirst))

\* ReviewService.getReviewsByUserId(userId, page, limit)
getReviewsByUserId(map, q) ==
    LET ofUser(r) == r.userId = q.userId
    IN  memoryPagination("ReviewService.getReviewsByUserId", q,
                         sort(filter(map, ofUser), newestFirst))

\* IngredientService.getIngredientsByRecipeId(recipeId, page, limit)
getIngredientsByRecipeId(recipeMap, map, q) ==
    LET ofRecipe(i) == i.recipeId = q.recipeId
    IN  IF ~recipeExists(recipeMap, q.recipeId)
        THEN RecipeNotFound("IngredientService.getIngredientsByRecipeId", q)
        ELSE memoryPagination("IngredientService.getIngredientsByRecipeId", q,
                              sort(filter(map, ofRecipe), byName))

(***************************************************************************)
(* Inputs: users, times, and the field values entities are made of.        *)
(***************************************************************************)
Users == {"u1", "u2"}
Times == 0..MaxTime
RecipeIds == 1..MaxRecipes

\* CreateRecipeDto values
RecipeBodies == {
    [title |-> <<"A", "b">>, description |-> <<"b">>, prepTime |-> 0,
     cookTime |-> 3, servings |-> 2, difficulty |-> "easy",
     categoryIds |-> <<1>>],
    [title |-> <<"b">>, description |-> <<"a", "B">>, prepTime |-> 2,
     cookTime |-> 1, servings |-> 1, difficulty |-> "hard",
     categoryIds |-> <<>>],
    [title |-> <<"B", "a">>, description |-> <<"A">>, prepTime |-> 1,
     cookTime |-> 1, servings |-> 3, difficulty |-> "easy",
     categoryIds |-> <<2, 1>>],
    [title |-> <<"a">>, description |-> <<"a">>, prepTime |-> 2,
     cookTime |-> 2, servings |-> 2, difficulty |-> "medium",
     categoryIds |-> <<2>>] }

\* CreateCategoryDto values
CategoryBodies == {
    [name |-> <<"B">>, description |-> Undefined],
    [name |-> <<"a", "b">>, description |-> Some(<<"B", "a">>)],
    [name |-> <<"A">>, description |-> Some(<<"a">>)],
    [name |-> <<"b">>, description |-> Some(<<>>)] }

\* CreateIngredientDto values
IngredientBodies == {
    [name |-> <<"B", "a">>, unit |-> <<"a">>, quantity |-> 2],
    [name |-> <<"a">>, unit |-> <<"b">>, quantity |-> 1],
    [name |-> <<"A", "b">>, unit |-> <<"a">>, quantity |-> 1] }

\* ratings a request may carry; only 1..5 pass validateRating
Ratings == {0, 1, 4, 5, 6}
ValidRatings == {r \in Ratings : r >= 1 /\ r <= 5}

With(body, extra) ==
    [k \in DOMAIN body \cup DOMAIN extra |->
        IF k \in DOMAIN extra THEN extra[k] ELSE body[k]]

\* an entity as create stores it: a fresh id, createdAt = updatedAt = now
Stamped(body, id, t) ==
    With(body, [id |-> id, createdAt |-> t, updatedAt |-> t])

\* the documents the list handlers are run over (ids are given by StoresOf)
StoredRecipes ==
    LET body(p) == CHOOSE b \in RecipeBodies : b.servings = p[1] /\ b.prepTime = p[2]
    IN  { With(body(p[1]), [createdBy |-> p[2], createdAt |-> p[3],
                            ingredientIds |-> <<>>]) :
            p \in { <<<<2, 0>>, "u1", 0>>, <<<<1, 2>>, "u2", 0>>,
                    <<<<3, 1>>, "u2", 1>>, <<<<2, 2>>, "u1", 1>> } }

StoredCategories ==
    { With(b, [createdAt |-> IF b.description = Undefined THEN 1 ELSE 0]) :
        b \in CategoryBodies }

StoredIngredients ==
    { With(b, [recipeId |-> IF b.quantity = 2 THEN 2 ELSE 1, createdAt |-> 0]) :
        b \in IngredientBodies }
    \cup { With(b, [recipeId |-> 1, createdAt |-> 1]) :
             b \in {c \in IngredientBodies : c.quantity = 2} }

StoredReviews ==
    { [recipeId |-> p[1], userId |-> p[2], userName |-> Some(p[2]),
       rating |-> p[3], comment |-> Undefined, createdAt |-> p[4]] :
        p \in { <<1, "u1", 5, 0>>, <<1, "u2", 4, 0>>, <<1, "u3", 1, 1>>,
                <<2, "u1", 4, 1>> } }

\* a store of up to max documents, ids 1..n in insertion order
StoresOf(docs, max) ==
    UNION { { [i \in 1..n |-> With(d[i], [id |-> i, updatedAt |-> d[i].createdAt])] :
                d \in [1..n -> docs] } : n \in 0..max }

\* what the in-memory maps guarantee: creation times follow insertion order
InsertionOrdered(store) ==
    \A i \in 1..Len(store), j \in 1..Len(store) :
        i < j => store[i].createdAt <= store[j].createdAt

UniqueNames(store) ==
    \A i \in 1..Len(store), j \in 1..Len(store) :
        i # j => toLowerCase(store[i].name) # toLowerCase(store[j].name)

UniqueReviewers(store) ==
    \A i \in 1..Len(store), j \in 1..Len(store) :
        i # j => <<store[i].recipeId, store[i].userId>>
                    # <<store[j].recipeId, store[j].userId>>

(***************************************************************************)
(* Inputs: the queries.                                                    *)
(***************************************************************************)
Pages == 1..MaxPage
\* the routes read parseInt(limit) || default: any integer but 0
Limits == {-1} \cup 1..MaxLimit

NoRecipeFilters ==
    [categoryId |-> Undefined, difficulty |-> Undefined, createdBy |-> Undefined,
     search |-> Undefined, minPrepTime |-> Undefined, maxPrepTime |-> Undefined,
     minCookTime |-> Undefined, maxCookTime |-> Undefined,
     minServings |-> Undefined, maxServings |-> Undefined,
     createdAfter |-> Undefined, createdBefore |-> Undefined]

StorePushedFilters == {
    <<>>,
    [difficulty |-> Some("easy")],
    [createdBy |-> Some("u2")],
    [categoryId |-> Some(1)],
    [createdAfter |-> Some(0), createdBefore |-> Some(0)],
    [difficulty |-> Some("easy"), createdAfter |-> Some(1)] }

MemoryOnlyFilters == {
    <<>>,
    [search |-> Some(<<>>)],
    [search |-> Some(<<"A", "B">>)],
    [minPrepTime |-> Some(0)],
    [maxPrepTime |-> Some(1)],
    [minCookTime |-> Some(2)],
    [maxCookTime |-> Some(1)],
    [minServings |-> Some(2), maxServings |-> Some(2)],
    [search |-> Some(<<"a">>), minPrepTime |-> Some(1)] }

RecipeFilters ==
    { With(With(NoRecipeFilters, p), m) :
        p \in StorePushedFilters, m \in MemoryOnlyFilters }

RecipeSorts == {Undefined,
                Some([field |-> "title", order |-> "asc"]),
                Some([field |-> "prepTime", order |-> "desc"])}

SearchFilters == {[search |-> Undefined], [search |-> Some(<<>>)],
                  [search |-> Some(<<"a">>)], [search |-> Some(<<"A", "B">>)]}

CategorySorts == {Undefined,
                  Some([field |-> "name", order |-> "desc"]),
                  Some([field |-> "createdAt", order |-> "asc"])}

IngredientSorts == {Undefined,
                    Some([field |-> "quantity", order |-> "desc"]),
                    Some([field |-> "createdAt", order |-> "asc"])}

RatingFilters == {[minRating |-> Undefined, maxRating |-> Undefined],
                  [minRating |-> Some(4), maxRating |-> Undefined],
                  [minRating |-> Undefined, maxRating |-> Some(4)],
                  [minRating |-> Some(1), maxRating |-> Some(4)]}

ReviewSorts == {Undefined,
                Some([field |-> "rating", order |-> "asc"]),
                Some([field |-> "rating", order |-> "desc"])}

\* the store adapter takes offsets from 0 and limits from 1
StoreAccepts(q) == q.page >= 1 /\ q.limit >= 1

(***************************************************************************)
(* The list handlers.  variant = "repository": the stores are the          *)
(* collections of the document store; variant = "memory": they are the     *)
(* Maps of the in-memory services.                                         *)
(***************************************************************************)
\* a list request is served from the store as it is when the request arrives
Idle == resp.op = "none"

RecipeFindAll ==
    /\ variant = "repository"
    /\ Idle
    /\ \E q \in [page : Pages, limit : Limits, filters : RecipeFilters,
                 sort : RecipeSorts] :
        /\ needsMemoryFiltering(q.filters) \/ StoreAccepts(q)
        /\ resp' = findAllRecipes(recipes, q)
    /\ UNCHANGED <<calls, variant, stores, idCounter, now>>

CategoryFindAll ==
    /\ variant = "repository"
    /\ Idle
    /\ \E q \in [page : Pages, limit : Limits, filters : SearchFilters,
                 sort : CategorySorts] :
        /\ Truthy(q.filters.search) \/ StoreAccepts(q)
        /\ resp' = findAllCategories(categories, q)
    /\ UNCHANGED <<calls, variant, stores, idCounter, now>>

IngredientFindByRecipeId ==
    /\ variant = "repository"
    /\ Idle
    /\ \E q \in [recipeId : RecipeIds, page : Pages, limit : Limits,
                 filters : SearchFilters, sort : IngredientSorts] :
        /\ Truthy(q.filters.search) \/ StoreAccepts(q)
        /\ resp' = findIngredientsByRecipeId(ingredients, q)
    /\ UNCHANGED <<calls, variant, stores, idCounter, now>>

ReviewFindByRecipeId ==
    /\ variant = "repository"
    /\ Idle
    /\ \E q \in [recipeId : RecipeIds, page : Pages, limit : Limits,
                 filters : RatingFilters, sort : ReviewSorts] :
        /\ StoreAccepts(q)
        /\ resp' = findReviewsByRecipeId(reviews, q)
    /\ UNCHANGED <<calls, variant, stores, idCounter, now>>

ReviewFindByUserId ==
    /\ variant = "repository"
    /\ Idle
    /\ \E q \in [userId : Users, page : Pages, limit : Limits,
                 filters : RatingFilters, sort : ReviewSorts] :
        /\ StoreAccepts(q)
        /\ resp' = findReviewsByUserId(reviews, q)
    /\ UNCHANGED <<calls, variant, stores, idCounter, now>>

GetAllRecipes ==
    /\ variant = "memory"
    /\ Idle
    /\ \E q \in [page : Pages, limit : Limits,
                 filters : {With(NoRecipeFilters, p) : p \in StorePushedFilters
                               \ {p \in StorePushedFilters :
                                      "createdAfter" \in DOMAIN p}}] :
        resp' = getAllRecipes(recipes, q)
    /\ UNCHANGED <<calls, variant, stores, idCounter, now>>

GetAllCategories ==
    /\ variant = "memory"
    /\ Idle
    /\ \E q \in [page : Pages, limit : Limits] :
        resp' = getAllCategories(categories, q)
    /\ UNCHANGED <<calls, variant, stores, idCounter, now>>

GetReviewsByRecipeId ==
    /\ variant = "memory"
    /\ Idle
    /\ \E q \in [recipeId : RecipeIds, page : Pages, limit : Limits] :
        resp' = getReviewsByRecipeId(recipes, reviews, q)
    /\ UNCHANGED <<calls, variant, stores, idCounter, now>>

GetReviewsByUserId ==
    /\ variant = "memory"
    /\ Idle
    /\ \E q \in [userId : Users, page : Pages, limit : Limits] :
        resp' = getReviewsByUserId(reviews, q)
    /\ UNCHANGED <<calls, variant, stores, idCounter, now>>

GetIngredientsByRecipeId ==
    /\ variant = "memory"
    /\ Idle
    /\ \E q \in [recipeId : RecipeIds, page : Pages, limit : Limits] :
        resp' = getIngredientsByRecipeId(recipes, ingredients, q)
    /\ UNCHANGED <<calls, variant, stores, idCounter, now>>

(***************************************************************************)
(* QuerySpec: the list handlers over every store content within the        *)
(* bounds.  The store does not change while it is queried.                 *)
(***************************************************************************)
NoResponse == [op |-> "none", args |-> <<>>, err |-> NoError]

OneRecipe == StoresOf({CHOOSE r \in StoredRecipes : r.prepTime = 0}, 1)

Admissible(store) == variant = "memory" => InsertionOrdered(store)

QueryInit ==
    /\ variant \in {"memory", "repository"}
    /\ now = MaxTime
    /\ resp = NoResponse
    /\ calls = NoCalls
    /\ \/ /\ recipes \in StoresOf(StoredRecipes, MaxStored)
          /\ Admissible(recipes)
          /\ categories = <<>> /\ ingredients = <<>> /\ reviews = <<>>
       \/ /\ categories \in StoresOf(StoredCategories, MaxStored)
          /\ Admissible(categories) /\ UniqueNames(categories)
          /\ recipes = <<>> /\ ingredients = <<>> /\ reviews = <<>>
       \/ /\ ingredients \in StoresOf(StoredIngredients, MaxStored)
          /\ Admissible(ingredients)
          /\ recipes \in OneRecipe /\ Len(recipes) = 1
          /\ categories = <<>> /\ reviews = <<>>
       \/ /\ reviews \in StoresOf(StoredReviews, MaxStored)
          /\ Admissible(reviews) /\ UniqueReviewers(reviews)
          /\ recipes \in OneRecipe /\ Len(recipes) = 1
          /\ categories = <<>> /\ ingredients = <<>>
    /\ idCounter = [recipe |-> Len(recipes) + 1, category |-> Len(categories) + 1,
                    ingredient |-> Len(ingredients) + 1, review |-> Len(reviews) + 1]

QueryNext ==
    \/ RecipeFindAll
    \/ CategoryFindAll
    \/ IngredientFindByRecipeId
    \/ ReviewFindByRecipeId
    \/ ReviewFindByUserId
    \/ GetAllRecipes
    \/ GetAllCategories
    \/ GetReviewsByRecipeId
    \/ GetReviewsByUserId
    \/ GetIngredientsByRecipeId

QuerySpec == QueryInit /\ [][QueryNext]_vars

(***************************************************************************)
(* What the claims about the list handlers speak of.                       *)
(***************************************************************************)
RepositoryLists == {"RecipeRepository.findAll", "CategoryRepository.findAll",
                    "IngredientRepository.findByRecipeId",
                    "ReviewRepository.findByRecipeId",
                    "ReviewRepository.findByUserId"}

MemoryLists == {"RecipeService.getAllRecipes", "CategoryService.getAllCategories",
                "ReviewService.getReviewsByRecipeId",
                "ReviewService.getReviewsByUserId",
                "IngredientService.getIngredientsByRecipeId"}

Listed == resp.op \in RepositoryLists \cup MemoryLists /\ resp.err = NoError

\* the response of the handler op to the query q in the current state
Answer(op, q) ==
    CASE op = "RecipeRepository.findAll" -> findAllRecipes(recipes, q)
      [] op = "CategoryRepository.findAll" -> findAllCategories(categories, q)
      [] op = "IngredientRepository.findByRecipeId" ->
            findIngredientsByRecipeId(ingredients, q)
      [] op = "ReviewRepository.findByRecipeId" -> findReviewsByRecipeId(reviews, q)
      [] op = "ReviewRepository.findByUserId" -> findReviewsByUserId(reviews, q)
      [] op = "RecipeService.getAllRecipes" -> getAllRecipes(recipes, q)
      [] op = "CategoryService.getAllCategories" -> getAllCategories(categories, q)
      [] op = "ReviewService.getReviewsByRecipeId" ->
            getReviewsByRecipeId(recipes, reviews, q)
      [] op = "ReviewService.getReviewsByUserId" -> getReviewsByUserId(reviews, q)
      [] op = "IngredientService.getIngredientsByRecipeId" ->
            getIngredientsByRecipeId(recipes, ingredients, q)

\* s occurs in t, letter case ignored
OccursIn(s, t) ==
    \E k \in 0..(Len(t) - Len(s)) :
        \A i \in 1..Len(s) : LowerChar[s[i]] = LowerChar[t[k + i]]

Within(x, lo, hi) ==
    /\ IsDefined(lo) => Val(lo) <= x
    /\ IsDefined(hi) => x <= Val(hi)

\* entity e satisfies every filter that the query q of handler op requests
Satisfies(op, e, q) ==
    CASE op \in {"RecipeRepository.findAll", "RecipeService.getAllRecipes"} ->
            /\ IsDefined(q.filters.difficulty) =>
                    e.difficulty = Val(q.filters.difficulty)
            /\ IsDefined(q.filters.createdBy) =>
                    e.createdBy = Val(q.filters.createdBy)
            /\ IsDefined(q.filters.categoryId) =>
                    \E i \in 1..Len(e.categoryIds) :
                        e.categoryIds[i] = Val(q.filters.categoryId)
            /\ Within(e.createdAt, q.filters.createdAfter, q.filters.createdBefore)
            /\ IsDefined(q.filters.search) =>
                    \/ OccursIn(Val(q.filters.search), e.title)
                    \/ OccursIn(Val(q.filters.search), e.description)
            /\ Within(e.prepTime, q.filters.minPrepTime, q.filters.maxPrepTime)
            /\ Within(e.cookTime, q.filters.minCookTime, q.filters.maxCookTime)
            /\ Within(e.servings, q.filters.minServings, q.filters.maxServings)
      [] op = "CategoryRepository.findAll" ->
            IsDefined(q.filters.search) =>
                \/ OccursIn(Val(q.filters.search), e.name)
                \/ /\ IsDefined(e.description)
                   /\ OccursIn(Val(q.filters.search), Val(e.description))
      [] op = "CategoryService.getAllCategories" -> TRUE
      [] op = "IngredientRepository.findByRecipeId" ->
            /\ e.recipeId = q.recipeId
            /\ IsDefined(q.filters.search) => OccursIn(Val(q.filters.search), e.name)
      [] op = "IngredientService.getIngredientsByRecipeId" ->
            e.recipeId = q.recipeId
      [] op = "ReviewRepository.findByRecipeId" ->
            /\ e.recipeId = q.recipeId
            /\ Within(e.rating, q.filters.minRating, q.filters.maxRating)
      [] op = "ReviewRepository.findByUserId" ->
            /\ e.userId = q.userId
            /\ Within(e.rating, q.filters.minRating, q.filters.maxRating)
      [] op = "ReviewService.getReviewsByRecipeId" -> e.recipeId = q.recipeId
      [] op = "ReviewService.getReviewsByUserId" -> e.userId = q.userId

StoreOf(op) ==
    CASE op \in {"RecipeRepository.findAll", "RecipeService.getAllRecipes"} -> recipes
      [] op \in {"CategoryRepository.findAll",
                 "CategoryService.getAllCategories"} -> categories
      [] op \in {"IngredientRepository.findByRecipeId",
                 "IngredientService.getIngredientsByRecipeId"} -> ingredients
      [] OTHER -> reviews

Matching(op, q) == {e \in Range(StoreOf(op)) : Satisfies(op, e, q)}

\* a memory-only filter is set in the query
MemoryOnlyFilterSet(op, q) ==
    CASE op = "RecipeRepository.findAll" ->
            \E k \in {"search", "minPrepTime", "maxPrepTime", "minCookTime",
                      "maxCookTime", "minServings", "maxServings"} :
                IsDefined(q.filters[k])
      [] op \in {"CategoryRepository.findAll",
                 "IngredientRepository.findByRecipeId"} ->
            IsDefined(q.filters.search)
      [] OTHER -> FALSE

\* C1: when a memory-only filter is set, the total that RecipeRepository.findAll,
\* CategoryRepository.findAll and IngredientRepository.findByRecipeId return is
\* the number of stored entities that satisfy all requested filters together.
C1_TotalCountsAllFilters ==
    (Listed /\ MemoryOnlyFilterSet(resp.op, resp.args)) =>
        resp.total = Cardinality(Matching(resp.op, resp.args))

\* a recipe query with a store-pushed and a memory-only filter, each of which
\* alone would let more recipes through
C1_Witness ==
    /\ Listed /\ resp.op = "RecipeRepository.findAll"
    /\ Truthy(resp.args.filters.search)
    /\ IsDefined(resp.args.filters.minPrepTime)
    /\ resp.total = 1
    /\ Cardinality({r \in Range(recipes) : RecipeStoreMatch(r, resp.args.filters)}) = 3

\* C2 (as claimed): a page number greater than totalPages gets an empty data
\* list and the total and totalPages that page 1 of the same query gets.
C2_PageBeyondLastIsEmpty ==
    (Listed /\ resp.args.page > resp.totalPages) =>
        LET first == Answer(resp.op, [resp.args EXCEPT !.page = 1])
        IN  /\ resp.data = <<>>
            /\ first.err = NoError
            /\ resp.total = first.total
            /\ resp.totalPages = first.totalPages

\* the same with the limit at least 1, which is where the code keeps it
PageBeyondLastIsEmptyForPositiveLimit ==
    resp.op # "none" /\ resp.args.limit >= 1 => C2_PageBeyondLastIsEmpty

ceilOf(total, limit) == IF total = 0 THEN 0 ELSE ((total - 1) \div limit) + 1

\* the sort the query asks for, or the handler's default
SortOf(op, q) ==
    CASE op = "RecipeRepository.findAll" ->
            IF IsDefined(q.sort) THEN Val(q.sort)
            ELSE [field |-> "createdAt", order |-> "desc"]
      [] op \in {"CategoryRepository.findAll",
                 "IngredientRepository.findByRecipeId"} ->
            IF IsDefined(q.sort) THEN Val(q.sort)
            ELSE [field |-> "name", order |-> "asc"]
      [] op \in {"ReviewRepository.findByRecipeId",
                 "ReviewRepository.findByUserId"} ->
            IF IsDefined(q.sort) THEN Val(q.sort)
            ELSE [field |-> "createdAt", order |-> "desc"]
      [] op \in {"RecipeService.getAllRecipes",
                 "ReviewService.getReviewsByRecipeId",
                 "ReviewService.getReviewsByUserId"} ->
            [field |-> "createdAt", order |-> "desc"]
      [] OTHER -> [field |-> "name", order |-> "locale"]

InOrder(a, b, srt) ==
    CASE srt.order = "asc" -> FieldCmp(a, b, srt.field) <= 0
      [] srt.order = "desc" -> FieldCmp(a, b, srt.field) >= 0
      [] OTHER -> localeCompare(a[srt.field], b[srt.field]) <= 0

\* pages 1..n of the query q, one after the other
Pages1To(op, q, n) ==
    LET f[p \in 0..n] ==
            IF p = 0 THEN <<>>
            ELSE f[p - 1] \o Answer(op, [q EXCEPT !.page = p]).data
    IN  f[n]

\* C3: for limit >= 1, totalPages = ceil(total / limit), every page
\* 1..totalPages is non-empty with at most limit items, and the pages in order
\* hold every matching entity exactly once, in the requested sort order.
C3_PagesPartitionTheResult ==
    (Listed /\ resp.args.limit >= 1) =>
        LET op == resp.op
            q == resp.args
            all == Pages1To(op, q, resp.totalPages)
        IN  /\ resp.totalPages = ceilOf(resp.total, q.limit)
            /\ \A p \in 1..resp.totalPages :
                  LET n == Len(Answer(op, [q EXCEPT !.page = p]).data)
                  IN  n >= 1 /\ n <= q.limit
            /\ Range(all) = Matching(op, q)
            /\ Len(all) = Cardinality(Matching(op, q))
            /\ \A i \in 1..Len(all), j \in 1..Len(all) :
                  i < j => InOrder(all[i], all[j], SortOf(op, q))

\* the second, shorter page of a result of three
C3_Witness ==
    /\ Listed /\ resp.args.limit = 2 /\ resp.args.page = 2
    /\ resp.total = 3 /\ resp.totalPages = 2 /\ Len(resp.data) = 1

\* the documents the where() clauses of handler op select
StoreSelects(op, q) ==
    CASE op = "RecipeRepository.findAll" ->
            {r \in Range(recipes) : RecipeStoreMatch(r, q.filters)}
      [] op = "CategoryRepository.findAll" -> Range(categories)
      [] op = "IngredientRepository.findByRecipeId" ->
            {i \in Range(ingredients) : i.recipeId = q.recipeId}
      [] op = "ReviewRepository.findByRecipeId" ->
            {r \in Range(reviews) :
                r.recipeId = q.recipeId /\ ReviewRatingMatch(r, q.filters)}
      [] op = "ReviewRepository.findByUserId" ->
            {r \in Range(reviews) :
                r.userId = q.userId /\ ReviewRatingMatch(r, q.filters)}

\* the handler took the fast path for this query
FastPath(op, q) ==
    CASE op = "RecipeRepository.findAll" -> ~needsMemoryFiltering(q.filters)
      [] op \in {"CategoryRepository.findAll",
                 "IngredientRepository.findByRecipeId"} -> ~Truthy(q.filters.search)
      [] OTHER -> op \in RepositoryLists

\* C4: the fast path (store count, store offset and limit) returns the data,
\* total and totalPages of the slow path: the whole store-filtered, store-sorted
\* result fetched and cut to [(page-1)*limit, page*limit) in memory.
C4_FastPathEqualsSlowPath ==
    (Listed /\ FastPath(resp.op, resp.args)) =>
        LET slow == manualPagination(resp.op, resp.args,
                        queryGet(StoreSelects(resp.op, resp.args),
                                 SortOf(resp.op, resp.args)))
        IN  /\ resp.data = slow.data
            /\ resp.total = slow.total
            /\ resp.totalPages = slow.totalPages

\* a fast-path answer that is a proper, non-empty part of the result
C4_Witness ==
    /\ Listed /\ FastPath(resp.op, resp.args)
    /\ resp.args.page = 2 /\ resp.args.limit = 1
    /\ resp.total = 3 /\ Len(resp.data) = 1

(***************************************************************************)
(* The stores as the services use them: Map.get / set / delete, and        *)
(* doc(id).get / set / update / delete of a collection.                    *)
(***************************************************************************)
\* An entry is filed under the id of its value; where a Map holds a value
\* under a key that is not the value's id, the entry carries that key.
keyOf(entry) == IF "key" \in DOMAIN entry THEN entry["key"] ELSE entry.id

filed(key, value) == IF value.id = key THEN value ELSE With(value, [key |-> key])

valueOf(entry) == [k \in DOMAIN entry \ {"key"} |-> entry[k]]

has(store, id) == \E i \in 1..Len(store) : keyOf(store[i]) = id

get(store, id) == valueOf(store[CHOOSE i \in 1..Len(store) : keyOf(store[i]) = id])

\* Map.set / docRef.set: a new key goes last, a known key keeps its place
set(store, e) ==
    IF has(store, keyOf(e))
    THEN [i \in 1..Len(store) |-> IF keyOf(store[i]) = keyOf(e) THEN e ELSE store[i]]
    ELSE Append(store, e)

\* Map.delete / docRef.delete
delete(store, id) ==
    LET others(e) == keyOf(e) # id
    IN  filter(store, others)

Returned(op, q, result) ==
    [op |-> op, args |-> q, err |-> NoError, result |-> result]

(***************************************************************************)
(* RecipeService (in-memory)                                               *)
(***************************************************************************)
CreateRecipeDtos == {b \in RecipeBodies : b.prepTime = 0}

UpdateRecipeDtos == {[title |-> <<"a">>, servings |-> 4]}

\* what a later new Date() of the same handler can read
ClockAfter(t) == {later \in Times : later >= t}

\* createRecipe reads the clock once for createdAt and again for updatedAt
createRecipe(userId, data, later) ==
    LET id == idCounter.recipe
        recipe == With(data, [id |-> id, createdBy |-> userId,
                              createdAt |-> now, updatedAt |-> later,
                              ingredientIds |-> <<>>])
    IN  /\ recipes' = set(recipes, recipe)
        /\ idCounter' = [idCounter EXCEPT !.recipe = id + 1]
        /\ now' = later
        /\ resp' = Returned("RecipeService.createRecipe",
                            [userId |-> userId, data |-> data], recipe)

CreateRecipe ==
    /\ Idle
    /\ \E userId \in Users, data \in CreateRecipeDtos, later \in ClockAfter(now) :
        createRecipe(userId, data, later)
    /\ UNCHANGED <<calls, variant, categories, ingredients, reviews>>

\* updateRecipe stamping the record before it looks at the caller
updateRecipeStampingFirst(id, userId, data) ==
    LET op == "RecipeService.updateRecipe"
        q == [id |-> id, userId |-> userId, data |-> data]
        recipe == get(recipes, id)
        updatedRecipe == With(With(recipe, data), [updatedAt |-> now])
    IN  IF ~has(recipes, id)
        THEN resp' = RecipeNotFound(op, q) /\ UNCHANGED recipes
        ELSE IF recipe.createdBy # userId
        THEN /\ resp' = AppError(op, q, "Unauthorized to update this recipe",
                                 "ERROR-1", 403)
             /\ recipes' = set(recipes, With(recipe, [updatedAt |-> now]))
        ELSE /\ recipes' = set(recipes, updatedRecipe)
             /\ resp' = Returned(op, q, updatedRecipe)

updateRecipe(id, userId, data) ==
    LET op == "RecipeService.updateRecipe"
        q == [id |-> id, userId |-> userId, data |-> data]
        recipe == get(recipes, id)
        updatedRecipe == With(With(recipe, data), [updatedAt |-> now])
    IN  IF ~has(recipes, id)
        THEN resp' = RecipeNotFound(op, q) /\ UNCHANGED recipes
        ELSE IF recipe.createdBy # userId
        THEN /\ resp' = AppError(op, q, "Unauthorized to update this recipe",
                                 "ERROR-1", 403)
             /\ UNCHANGED recipes
        ELSE /\ recipes' = set(recipes, filed(id, updatedRecipe))
             /\ resp' = Returned(op, q, updatedRecipe)

UpdateRecipe ==
    /\ Idle
    /\ \E id \in RecipeIds, userId \in Users, data \in UpdateRecipeDtos :
        updateRecipe(id, userId, data)
    /\ UNCHANGED <<calls, variant, categories, ingredients, reviews, idCounter, now>>

deleteRecipe(id, userId) ==
    LET op == "RecipeService.deleteRecipe"
        q == [id |-> id, userId |-> userId]
        recipe == get(recipes, id)
    IN  IF ~has(recipes, id)
        THEN resp' = RecipeNotFound(op, q) /\ UNCHANGED recipes
        ELSE IF recipe.createdBy # userId
        THEN /\ resp' = AppError(op, q, "Unauthorized to delete this recipe",
                                 "ERROR-1", 403)
             /\ UNCHANGED recipes
        ELSE /\ recipes' = delete(recipes, id)
             /\ resp' = Returned(op, q, <<>>)

DeleteRecipe ==
    /\ Idle
    /\ \E id \in RecipeIds, userId \in Users : deleteRecipe(id, userId)
    /\ UNCHANGED <<calls, variant, categories, ingredients, reviews, idCounter, now>>

\* addIngredientToRecipe writing back the array as it was when the ingredient
\* was stored, with the id appended
addIngredientToRecipeFromStaleArray(map, recipeId, ingredientId) ==
    LET recipe == get(map, recipeId)
        older(id) == id < ingredientId
    IN  set(map, With(recipe,
                [ingredientIds |-> Append(filter(recipe.ingredientIds, older),
                                          ingredientId),
                 updatedAt |-> now]))

\* RecipeService.addIngredientToRecipe, for a recipe that is stored
addIngredientToRecipe(map, recipeId, ingredientId) ==
    LET recipe == get(map, recipeId)
    IN  IF ingredientId \in Range(recipe.ingredientIds) THEN map
        ELSE set(map, With(recipe,
                    [ingredientIds |-> Append(recipe.ingredientIds, ingredientId),
                     updatedAt |-> now]))

(***************************************************************************)
(* IngredientService.createIngredient (in-memory and repository-backed)    *)
(***************************************************************************)
CreateIngredientDtos == {b \in IngredientBodies : b.quantity = 2}

\* createIngredient storing the ingredient before it looks for the recipe
createIngredientBeforeRecipeCheck(recipeId, data) ==
    LET op == "IngredientService.createIngredient"
        q == [recipeId |-> recipeId, data |-> data]
        id == idCounter.ingredient
        ingredient == With(data, [id |-> id, recipeId |-> recipeId,
                                  createdAt |-> now, updatedAt |-> now])
    IN  /\ ingredients' = set(ingredients, ingredient)
        /\ idCounter' = [idCounter EXCEPT !.ingredient = id + 1]
        /\ IF ~has(recipes, recipeId)
           THEN resp' = RecipeNotFound(op, q) /\ UNCHANGED recipes
           ELSE /\ recipes' = addIngredientToRecipe(recipes, recipeId, id)
                /\ resp' = Returned(op, q, ingredient)

createIngredient(recipeId, data) ==
    LET op == "IngredientService.createIngredient"
        q == [recipeId |-> recipeId, data |-> data]
        id == idCounter.ingredient
        ingredient == With(data, [id |-> id, recipeId |-> recipeId,
                                  createdAt |-> now, updatedAt |-> now])
    IN  IF ~has(recipes, recipeId)
        THEN /\ resp' = RecipeNotFound(op, q)
             /\ UNCHANGED <<recipes, ingredients, idCounter>>
        ELSE /\ ingredients' = set(ingredients, ingredient)
             /\ idCounter' = [idCounter EXCEPT !.ingredient = id + 1]
             /\ recipes' = addIngredientToRecipe(recipes, recipeId, id)
             /\ resp' = Returned(op, q, ingredient)

CreateIngredient ==
    /\ Idle
    /\ \E recipeId \in RecipeIds, data \in CreateIngredientDtos :
        createIngredient(recipeId, data)
    /\ UNCHANGED <<calls, variant, categories, reviews, now>>

(***************************************************************************)
(* ReviewService, in-memory (variant = "memory")                           *)
(***************************************************************************)
CreateReviewDtos == {
    [rating |-> 4, comment |-> Some(<<"a">>)],
    [rating |-> 5, comment |-> Undefined],
    [rating |-> 0, comment |-> Undefined],
    [rating |-> 6, comment |-> Some(<<"b">>)] }

UpdateReviewDtos == {[rating |-> 1], [rating |-> 6], [comment |-> Some(<<"b">>)]}

UserNames == [u \in Users |-> IF u = "u1" THEN Some(<<"A">>) ELSE Undefined]

\* Number.isInteger of a number of the model, all of which are whole
isInteger(number) == number \in Int

\* ReviewService.validateRating: the message it throws, or NoError
validateRating(rating) ==
    IF rating < 1 \/ rating > 5 THEN "Rating must be between 1 and 5"
    ELSE IF ~isInteger(rating) THEN "Rating must be a whole number"
    ELSE NoError

\* createReview taking only a review with the same rating for a duplicate
memCreateReviewSameRatingOnly(recipeId, userId, userName, data) ==
    LET op == "ReviewService.createReview"
        q == [recipeId |-> recipeId, userId |-> userId, data |-> data]
        existingReview == \E i \in 1..Len(reviews) :
            /\ reviews[i].recipeId = recipeId /\ reviews[i].userId = userId
            /\ reviews[i].rating = data.rating
        id == idCounter.review
        review == [id |-> id, recipeId |-> recipeId, userId |-> userId,
                   userName |-> userName, rating |-> data.rating,
                   comment |-> data.comment, createdAt |-> now, updatedAt |-> now]
    IN  IF ~has(recipes, recipeId)
        THEN resp' = RecipeNotFound(op, q) /\ UNCHANGED <<reviews, idCounter>>
        ELSE IF validateRating(data.rating) # NoError
        THEN /\ resp' = AppError(op, q, validateRating(data.rating), "ERROR-1", 400)
             /\ UNCHANGED <<reviews, idCounter>>
        ELSE IF existingReview
        THEN /\ resp' = AppError(op, q, "You have already reviewed this recipe",
                                 "ERROR-1", 400)
             /\ UNCHANGED <<reviews, idCounter>>
        ELSE /\ reviews' = set(reviews, review)
             /\ idCounter' = [idCounter EXCEPT !.review = id + 1]
             /\ resp' = Returned(op, q, review)

memCreateReview(recipeId, userId, userName, data) ==
    LET op == "ReviewService.createReview"
        q == [recipeId |-> recipeId, userId |-> userId, data |-> data]
        existingReview == \E i \in 1..Len(reviews) :
            reviews[i].recipeId = recipeId /\ reviews[i].userId = userId
        id == idCounter.review
        review == [id |-> id, recipeId |-> recipeId, userId |-> userId,
                   userName |-> userName, rating |-> data.rating,
                   comment |-> data.comment, createdAt |-> now, updatedAt |-> now]
    IN  IF ~has(recipes, recipeId)
        THEN resp' = RecipeNotFound(op, q) /\ UNCHANGED <<reviews, idCounter>>
        ELSE IF validateRating(data.rating) # NoError
        THEN /\ resp' = AppError(op, q, validateRating(data.rating), "ERROR-1", 400)
             /\ UNCHANGED <<reviews, idCounter>>
        ELSE IF existingReview
        THEN /\ resp' = AppError(op, q, "You have already reviewed this recipe",
                                 "ERROR-1", 400)
             /\ UNCHANGED <<reviews, idCounter>>
        ELSE /\ reviews' = set(reviews, review)
             /\ idCounter' = [idCounter EXCEPT !.review = id + 1]
             /\ resp' = Returned(op, q, review)

MemCreateReview ==
    /\ Idle
    /\ variant = "memory"
    /\ \E recipeId \in RecipeIds, userId \in Users, data \in CreateReviewDtos :
        memCreateReview(recipeId, userId, UserNames[userId], data)
    /\ UNCHANGED <<calls, variant, recipes, categories, ingredients, now>>

ReviewNotFound(op, q, v) ==
    AppError(op, q, "Review not found", Code(v, "REVIEW_NOT_FOUND"), 404)

memUpdateReview(id, userId, data) ==
    LET op == "ReviewService.updateReview"
        q == [id |-> id, userId |-> userId, data |-> data]
        review == get(reviews, id)
        updatedReview == With(With(review, data), [updatedAt |-> now])
    IN  IF ~has(reviews, id)
        THEN resp' = ReviewNotFound(op, q, "memory") /\ UNCHANGED reviews
        ELSE IF review.userId # userId
        THEN /\ resp' = AppError(op, q, "Unauthorized to update this review",
                                 "ERROR-1", 403)
             /\ UNCHANGED reviews
        ELSE IF "rating" \in DOMAIN data /\ validateRating(data.rating) # NoError
        THEN /\ resp' = AppError(op, q, validateRating(data.rating), "ERROR-1", 400)
             /\ UNCHANGED reviews
        ELSE /\ reviews' = set(reviews, updatedReview)
             /\ resp' = Returned(op, q, updatedReview)

ReviewIds == 1..MaxReviews

MemUpdateReview ==
    /\ Idle
    /\ variant = "memory"
    /\ \E id \in ReviewIds, userId \in Users, data \in UpdateReviewDtos :
        memUpdateReview(id, userId, data)
    /\ UNCHANGED <<calls, variant, recipes, categories, ingredients, idCounter, now>>

\* the roles the route DELETE /reviews/:id lets through to the service
DeleteReviewRoles == {"user", "admin"}

\* role is the caller's role, which the route checked and does not hand on
memDeleteReview(id, userId, role) ==
    LET op == "ReviewService.deleteReview"
        q == [id |-> id, userId |-> userId, role |-> role]
        review == get(reviews, id)
    IN  IF ~has(reviews, id)
        THEN resp' = ReviewNotFound(op, q, "memory") /\ UNCHANGED reviews
        ELSE IF review.userId # userId
        THEN /\ resp' = AppError(op, q, "Unauthorized to delete this review",
                                 "ERROR-1", 403)
             /\ UNCHANGED reviews
        ELSE /\ reviews' = delete(reviews, id)
             /\ resp' = Returned(op, q, <<>>)

MemDeleteReview ==
    /\ Idle
    /\ variant = "memory"
    /\ \E id \in ReviewIds, userId \in Users, role \in DeleteReviewRoles :
        memDeleteReview(id, userId, role)
    /\ UNCHANGED <<calls, variant, recipes, categories, ingredients, idCounter, now>>

(***************************************************************************)
(* ReviewService over ReviewRepository (variant = "repository")            *)
(***************************************************************************)
\* ReviewRepository.findByRecipeAndUser: the first match or nothing
findByRecipeAndUser(coll, recipeId, userId) ==
    LET docs == {r \in Range(coll) : r.recipeId = recipeId /\ r.userId = userId}
        snapshot == queryOffsetLimit(docs, [field |-> "id", order |-> "asc"], 0, 1)
    IN  IF snapshot = <<>> THEN Undefined ELSE Some(snapshot[1])

\* A Date is a number of milliseconds; Firestore keeps it as a Timestamp of
\* seconds and nanoseconds and hands that back in doc.data()
DateFields == {"createdAt", "updatedAt"}

fromDate(date) ==
    [seconds |-> date \div 1000, nanoseconds |-> (date % 1000) * 1000000]

toDate(timestamp) == timestamp.seconds * 1000 + timestamp.nanoseconds \div 1000000

\* doc.data(): the fields of the document without its id
docData(doc) ==
    [k \in DOMAIN doc \ {"id"} |-> IF k \in DateFields THEN fromDate(doc[k]) ELSE doc[k]]

\* BaseRepository.convertTimestamps
convertTimestamps(data) ==
    [k \in DOMAIN data |-> IF k \in DateFields THEN toDate(data[k]) ELSE data[k]]

\* BaseRepository.docToEntity of the snapshot of doc(id)
docToEntity(coll, id) ==
    IF ~has(coll, id) THEN Undefined
    ELSE Some(With([id |-> id], convertTimestamps(docData(get(coll, id)))))

\* BaseRepository.findById
findById(coll, id) == docToEntity(coll, id)

\* BaseRepository.update: the collection afterwards
update(coll, id, data) ==
    LET updateData == [k \in (DOMAIN data \cup {"updatedAt"}) \ {"id"} |->
                          IF k = "updatedAt" THEN now ELSE data[k]]
    IN  IF ~has(coll, id) THEN coll ELSE set(coll, With(get(coll, id), updateData))

createReview(recipeId, userId, userName, data) ==
    LET op == "ReviewService.createReview"
        q == [recipeId |-> recipeId, userId |-> userId, data |-> data]
        existingReview == findByRecipeAndUser(reviews, recipeId, userId)
        id == idCounter.review
        review == [id |-> id, recipeId |-> recipeId, userId |-> userId,
                   userName |-> userName, rating |-> data.rating,
                   comment |-> data.comment, createdAt |-> now, updatedAt |-> now]
    IN  IF ~has(recipes, recipeId)
        THEN resp' = RecipeNotFound(op, q) /\ UNCHANGED <<reviews, idCounter>>
        ELSE IF IsDefined(existingReview)
        THEN /\ resp' = AppError(op, q, "You have already reviewed this recipe",
                                 "DUPLICATE_REVIEW", 400)
             /\ UNCHANGED <<reviews, idCounter>>
        ELSE /\ reviews' = set(reviews, review)
             /\ idCounter' = [idCounter EXCEPT !.review = id + 1]
             /\ resp' = Returned(op, q, review)

\* the routes of this generation pass validateCreateReview first
CreateReview ==
    /\ Idle
    /\ variant = "repository"
    /\ \E recipeId \in RecipeIds, userId \in Users, data \in CreateReviewDtos :
        /\ data.rating \in ValidRatings
        /\ createReview(recipeId, userId, UserNames[userId], data)
    /\ UNCHANGED <<calls, variant, recipes, categories, ingredients, now>>

updateReview(id, userId, data) ==
    LET op == "ReviewService.updateReview"
        q == [id |-> id, userId |-> userId, data |-> data]
        review == findById(reviews, id)
    IN  IF ~IsDefined(review)
        THEN resp' = ReviewNotFound(op, q, "repository") /\ UNCHANGED reviews
        ELSE IF Val(review).userId # userId
        THEN /\ resp' = AppError(op, q, "Unauthorized to update this review",
                                 "UNAUTHORIZED", 403)
             /\ UNCHANGED reviews
        ELSE /\ reviews' = update(reviews, id, data)
             /\ resp' = Returned(op, q, get(reviews', id))

UpdateReview ==
    /\ Idle
    /\ variant = "repository"
    /\ \E id \in ReviewIds, userId \in Users, data \in UpdateReviewDtos :
        /\ "rating" \in DOMAIN data => data.rating \in ValidRatings
        /\ updateReview(id, userId, data)
    /\ UNCHANGED <<calls, variant, recipes, categories, ingredients, idCounter, now>>

\* role is the caller's role, which the route checked and does not hand on
deleteReview(id, userId, role) ==
    LET op == "ReviewService.deleteReview"
        q == [id |-> id, userId |-> userId, role |-> role]
        review == findById(reviews, id)
    IN  IF ~IsDefined(review)
        THEN resp' = ReviewNotFound(op, q, "repository") /\ UNCHANGED reviews
        ELSE IF Val(review).userId # userId
        THEN /\ resp' = AppError(op, q, "Unauthorized to delete this review",
                                 "UNAUTHORIZED", 403)
             /\ UNCHANGED reviews
        ELSE /\ reviews' = delete(reviews, id)
             /\ resp' = Returned(op, q, <<>>)

DeleteReview ==
    /\ Idle
    /\ variant = "repository"
    /\ \E id \in ReviewIds, userId \in Users, role \in DeleteReviewRoles :
        deleteReview(id, userId, role)
    /\ UNCHANGED <<calls, variant, recipes, categories, ingredients, idCounter, now>>

(***************************************************************************)
(* Spec: one request to the recipe, ingredient and review services, from   *)
(* any store the services can have built.                                  *)
(***************************************************************************)
\* the recipes as createIngredient leaves them: ingredientIds and updatedAt
Linked(rs, ings) ==
    [i \in 1..Len(rs) |->
        LET ofRecipe(g) == g.recipeId = rs[i].id
            mine == filter(ings, ofRecipe)
        IN  With(rs[i],
                 [ingredientIds |-> [k \in 1..Len(mine) |-> mine[k].id],
                  updatedAt |-> IF mine = <<>> THEN rs[i].updatedAt
                                ELSE mine[Len(mine)].createdAt])]

\* a child is created after its recipe, which must exist then
ChildrenOf(rs, children) ==
    \A i \in 1..Len(children) :
        /\ has(rs, children[i].recipeId)
        /\ get(rs, children[i].recipeId).createdAt <= children[i].createdAt

\* the store after deleteRecipe has removed the recipes whose ids are in gone
Without(rs, gone) ==
    LET kept(r) == r.id \notin gone
    IN  filter(rs, kept)

Init ==
    /\ variant \in {"memory", "repository"}
    /\ now = MaxTime
    /\ resp = NoResponse
    /\ calls = NoCalls
    /\ categories = <<>>
    /\ ingredients \in StoresOf(StoredIngredients, MaxIngredients)
    /\ InsertionOrdered(ingredients)
    /\ reviews \in StoresOf(StoredReviews, MaxReviews)
    /\ InsertionOrdered(reviews) /\ UniqueReviewers(reviews)
    /\ \E rs \in StoresOf(StoredRecipes, MaxRecipes) :
        /\ InsertionOrdered(rs)
        /\ ChildrenOf(rs, ingredients) /\ ChildrenOf(rs, reviews)
        /\ recipes \in {Without(Linked(rs, ingredients), gone) :
                            gone \in SUBSET (1..Len(rs))}
        /\ idCounter = [recipe |-> Len(rs) + 1, category |-> 1,
                        ingredient |-> Len(ingredients) + 1,
                        review |-> Len(reviews) + 1]

Next ==
    \/ CreateRecipe
    \/ UpdateRecipe
    \/ DeleteRecipe
    \/ CreateIngredient
    \/ MemCreateReview
    \/ MemUpdateReview
    \/ MemDeleteReview
    \/ CreateReview
    \/ UpdateReview
    \/ DeleteReview

Spec == Init /\ [][Next]_vars

(***************************************************************************)
(* CategoryService, in-memory (variant = "memory") and over                *)
(* CategoryRepository (variant = "repository")                             *)
(***************************************************************************)
CategoryNames == {<<"a">>, <<"A">>, <<"b">>, <<>>}

CreateCategoryDtos ==
    {[name |-> n, description |-> IF n = <<"b">> THEN Some(<<"a">>) ELSE Undefined] :
        n \in CategoryNames}

UpdateCategoryDtos ==
    {[name |-> n] : n \in CategoryNames} \cup {[description |-> Some(<<"b">>)]}

\* validation helper isNonEmptyString, on a string without white space
isNonEmptyString(value) == Len(value) > 0

DuplicateCategory(op, q, v) ==
    AppError(op, q, "Category with this name already exists",
             Code(v, "DUPLICATE_CATEGORY"), 400)

CategoryNotFound(op, q, v) ==
    AppError(op, q, "Category not found", Code(v, "CATEGORY_NOT_FOUND"), 404)

\* the tail of both createCategory: a fresh id, both stamps, the store
storeCategory(op, data) ==
    LET id == idCounter.category
        category == With(data, [id |-> id, createdAt |-> now, updatedAt |-> now])
    IN  /\ categories' = set(categories, category)
        /\ idCounter' = [idCounter EXCEPT !.category = id + 1]
        /\ resp' = Returned(op, data, category)

\* createCategory comparing the names as they are written
memCreateCategoryCaseSensitive(data) ==
    LET op == "CategoryService.createCategory"
        existingCategory == \E i \in 1..Len(categories) :
            categories[i].name = data.name
    IN  IF existingCategory
        THEN /\ resp' = DuplicateCategory(op, data, "memory")
             /\ UNCHANGED <<categories, idCounter>>
        ELSE storeCategory(op, data)

memCreateCategory(data) ==
    LET op == "CategoryService.createCategory"
        existingCategory == \E i \in 1..Len(categories) :
            toLowerCase(categories[i].name) = toLowerCase(data.name)
    IN  IF existingCategory
        THEN /\ resp' = DuplicateCategory(op, data, "memory")
             /\ UNCHANGED <<categories, idCounter>>
        ELSE storeCategory(op, data)

\* CategoryRepository.findByNameCaseInsensitive: the first match or nothing
findByNameCaseInsensitive(coll, name) ==
    LET snapshot == collectionGet(coll)
        nameLower == toLowerCase(name)
        hit(c) == toLowerCase(c.name) = nameLower
        hits == filter(snapshot, hit)
    IN  IF hits = <<>> THEN Undefined ELSE Some(hits[1])

createCategory(data) ==
    LET op == "CategoryService.createCategory"
        existingCategory == findByNameCaseInsensitive(categories, data.name)
    IN  IF IsDefined(existingCategory)
        THEN /\ resp' = DuplicateCategory(op, data, "repository")
             /\ UNCHANGED <<categories, idCounter>>
        ELSE storeCategory(op, data)

\* the routes over the in-memory service pass the body on as it came; the
\* routes over the repository pass validateCreateCategory first
CreateCategory ==
    /\ idCounter.category <= MaxCategories
    /\ \E data \in CreateCategoryDtos :
        \/ variant = "memory" /\ memCreateCategory(data)
        \/ /\ variant = "repository"
           /\ isNonEmptyString(data.name)
           /\ createCategory(data)
    /\ UNCHANGED <<calls, variant, recipes, ingredients, reviews, now>>

memUpdateCategory(id, data) ==
    LET op == "CategoryService.updateCategory"
        q == [id |-> id, data |-> data]
        category == get(categories, id)
        existingCategory == \E i \in 1..Len(categories) :
            /\ categories[i].id # id
            /\ toLowerCase(categories[i].name) = toLowerCase(data.name)
        updatedCategory == With(With(category, data), [updatedAt |-> now])
    IN  IF ~has(categories, id)
        THEN resp' = CategoryNotFound(op, q, "memory") /\ UNCHANGED categories
        ELSE IF "name" \in DOMAIN data /\ data.name # <<>> /\ existingCategory
        THEN resp' = DuplicateCategory(op, q, "memory") /\ UNCHANGED categories
        ELSE /\ categories' = set(categories, updatedCategory)
             /\ resp' = Returned(op, q, updatedCategory)

existsByNameExcludingId(coll, name, excludeId) ==
    LET snapshot == collectionGet(coll)
        nameLower == toLowerCase(name)
    IN  \E i \in 1..Len(snapshot) :
            /\ snapshot[i].id # excludeId
            /\ toLowerCase(snapshot[i].name) = nameLower

updateCategory(id, data) ==
    LET op == "CategoryService.updateCategory"
        q == [id |-> id, data |-> data]
        isDuplicate == existsByNameExcludingId(categories, data.name, id)
    IN  IF ~IsDefined(findById(categories, id))
        THEN resp' = CategoryNotFound(op, q, "repository") /\ UNCHANGED categories
        ELSE IF "name" \in DOMAIN data /\ data.name # <<>> /\ isDuplicate
        THEN resp' = DuplicateCategory(op, q, "repository") /\ UNCHANGED categories
        ELSE /\ categories' = update(categories, id, data)
             /\ resp' = Returned(op, q, get(categories', id))

CategoryIds == 1..MaxCategories

UpdateCategory ==
    /\ \E id \in CategoryIds, data \in UpdateCategoryDtos :
        \/ variant = "memory" /\ memUpdateCategory(id, data)
        \/ /\ variant = "repository"
           /\ "name" \in DOMAIN data => isNonEmptyString(data.name)
           /\ updateCategory(id, data)
    /\ UNCHANGED <<calls, variant, recipes, ingredients, reviews, idCounter, now>>

deleteCategory(id) ==
    LET op == "CategoryService.deleteCategory"
        q == [id |-> id]
    IN  IF ~has(categories, id)
        THEN resp' = CategoryNotFound(op, q, variant) /\ UNCHANGED categories
        ELSE /\ categories' = delete(categories, id)
             /\ resp' = Returned(op, q, <<>>)

DeleteCategory ==
    /\ \E id \in CategoryIds : deleteCategory(id)
    /\ UNCHANGED <<calls, variant, recipes, ingredients, reviews, idCounter, now>>

\* the clock read by new Date() moves on between requests
Tick ==
    /\ now < MaxTime
    /\ now' = now + 1
    /\ UNCHANGED <<calls, variant, stores, idCounter, resp>>

(***************************************************************************)
(* CategorySpec: the category service from its construction on.            *)
(***************************************************************************)
CategoryInit ==
    /\ variant \in {"memory", "repository"}
    /\ recipes = <<>> /\ categories = <<>> /\ ingredients = <<>> /\ reviews = <<>>
    /\ idCounter = [recipe |-> 1, category |-> 1, ingredient |-> 1, review |-> 1]
    /\ now = 0
    /\ resp = NoResponse
    /\ calls = NoCalls

CategoryNext ==
    \/ CreateCategory
    \/ UpdateCategory
    \/ DeleteCategory
    \/ Tick

CategorySpec == CategoryInit /\ [][CategoryNext]_vars

(***************************************************************************)
(* Properties of the category service (CategorySpec).                      *)
(***************************************************************************)
SameIgnoringCase(s, t) ==
    /\ Len(s) = Len(t)
    /\ \A i \in 1..Len(s) : LowerChar[s[i]] = LowerChar[t[i]]

IsDuplicateCategoryError(r) ==
    r.err = "Category with this name already exists" /\ r.status = 400

\* this step answers createCategory(data)
CreateCategoryStep(data) ==
    /\ now' = now
    /\ resp'.op = "CategoryService.createCategory"
    /\ resp'.args = data

\* this step answers updateCategory(id, data)
UpdateCategoryStep(id, data) ==
    /\ now' = now
    /\ resp'.op = "CategoryService.updateCategory"
    /\ resp'.args = [id |-> id, data |-> data]

\* C5: createCategory with a name that equals, letter case ignored, the name
\* of a stored category fails with the duplicate-category error and stores
\* nothing; with any other name it succeeds and appends exactly one category,
\* which carries that name.
C5_CreateCategoryRejectsDuplicateNames ==
    [][\A data \in CreateCategoryDtos :
        CreateCategoryStep(data) =>
            IF \E i \in 1..Len(categories) :
                    SameIgnoringCase(categories[i].name, data.name)
            THEN IsDuplicateCategoryError(resp') /\ categories' = categories
            ELSE /\ resp'.err = NoError
                 /\ Len(categories') = Len(categories) + 1
                 /\ SubSeq(categories', 1, Len(categories)) = categories
                 /\ categories'[Len(categories')].name = data.name]_vars

\* a create was refused for a name that differs from the stored one in case only
C5_Witness ==
    /\ resp.op = "CategoryService.createCategory"
    /\ IsDuplicateCategoryError(resp)
    /\ \E i \in 1..Len(categories) :
        /\ categories[i].name # resp.args.name
        /\ SameIgnoringCase(categories[i].name, resp.args.name)

\* C6: updateCategory(id, {name}) fails with the duplicate-category error and
\* leaves the categories unchanged when another category (different id)
\* carries that name, letter case ignored; it succeeds when the name is the
\* category's own current name.
C6_UpdateCategoryRejectsAnotherCategorysName ==
    [][\A id \in CategoryIds, n \in CategoryNames :
        (UpdateCategoryStep(id, [name |-> n]) /\ has(categories, id)) =>
            /\ (\E i \in 1..Len(categories) :
                    /\ categories[i].id # id
                    /\ SameIgnoringCase(categories[i].name, n))
                => (IsDuplicateCategoryError(resp') /\ categories' = categories)
            /\ get(categories, id).name = n => resp'.err = NoError]_vars

\* the same for the names that are not empty, which is what the code does
UpdateCategoryRejectsAnotherCategorysNonEmptyName ==
    [][\A id \in CategoryIds, n \in CategoryNames \ {<<>>} :
        (UpdateCategoryStep(id, [name |-> n]) /\ has(categories, id)) =>
            /\ (\E i \in 1..Len(categories) :
                    /\ categories[i].id # id
                    /\ SameIgnoringCase(categories[i].name, n))
                => (IsDuplicateCategoryError(resp') /\ categories' = categories)
            /\ get(categories, id).name = n => resp'.err = NoError]_vars

(***************************************************************************)
(* Properties of the recipe and review services (Spec).                    *)
(***************************************************************************)
IsDuplicateReviewError(r) ==
    r.err = "You have already reviewed this recipe" /\ r.status = 400

\* this step answers the request op
Answers(op) == resp.op = "none" /\ resp'.op = op

AlreadyReviewed(recipeId, userId) ==
    \E i \in 1..Len(reviews) :
        reviews[i].recipeId = recipeId /\ reviews[i].userId = userId

C8_DeleteRecipeCascades ==
    (resp.op = "RecipeService.deleteRecipe" /\ resp.err = NoError) =>
        /\ \A g \in Range(ingredients) :
            IsDefined(findById(ingredients, g.id)) => g.recipeId # resp.args.id
        /\ \A r \in Range(reviews) :
            IsDefined(findById(reviews, r.id)) => r.recipeId # resp.args.id

OwnedOps == {"RecipeService.updateRecipe", "RecipeService.deleteRecipe",
             "ReviewService.updateReview", "ReviewService.deleteReview"}

OwnedStore(op) ==
    IF op \in {"RecipeService.updateRecipe", "RecipeService.deleteRecipe"}
    THEN recipes ELSE reviews

OwnerOf(op, id) ==
    IF op \in {"RecipeService.updateRecipe", "RecipeService.deleteRecipe"}
    THEN get(recipes, id).createdBy ELSE get(reviews, id).userId

C10_AdminDeletesAnyReview ==
    [][(/\ Answers("ReviewService.deleteReview")
        /\ resp'.args.role = "admin"
        /\ has(reviews, resp'.args.id)
        /\ get(reviews, resp'.args.id).userId # resp'.args.userId)
        => (resp'.err = NoError /\ ~has(reviews', resp'.args.id))]_vars

(***************************************************************************)
(* getAverageRating.  A number with one decimal is held in tenths: the     *)
(* average 4.5 is 45.                                                      *)
(***************************************************************************)
MaxRated == 4

\* Array.prototype.reduce((acc, review) => acc + review.rating, 0)
sumOfRatings(list) ==
    LET acc[n \in 0..Len(list)] ==
            IF n = 0 THEN 0 ELSE acc[n - 1] + list[n].rating
    IN  acc[Len(list)]

\* Math.round taking the lower one of two integers that are equally near
roundHalfDown(num, den) ==
    LET q == num \div den
        r == num % den
    IN  IF 2 * r > den THEN q + 1 ELSE q

\* Math.round(x) of x = num / den, den > 0, num >= 0: the nearest integer,
\* the upper one of two that are equally near
round(num, den) ==
    LET q == num \div den
        r == num % den
    IN  IF 2 * r >= den THEN q + 1 ELSE q

\* Math.round((sum / count) * 10) / 10, in tenths
roundToTenth(sum, count) == round(sum * 10, count)

\* ReviewService.getAverageRating (in-memory)
memGetAverageRating(map, recipeId) ==
    LET ofRecipe(r) == r.recipeId = recipeId
        list == filter(map, ofRecipe)
    IN  IF Len(list) = 0 THEN [average |-> 0, count |-> 0]
        ELSE [average |-> roundToTenth(sumOfRatings(list), Len(list)),
              count |-> Len(list)]

\* ReviewRepository.getAverageRating
getAverageRating(coll, recipeId) ==
    LET docs == {r \in Range(coll) : r.recipeId = recipeId}
        snapshot == queryGet(docs, [field |-> "id", order |-> "asc"])
        count == Len(snapshot)
    IN  IF snapshot = <<>> THEN [average |-> 0, count |-> 0]
        ELSE [average |-> roundToTenth(sumOfRatings(snapshot), count),
              count |-> count]

GetAverageRating ==
    /\ Idle
    /\ \E recipeId \in RecipeIds :
        resp' = Returned("ReviewService.getAverageRating", [recipeId |-> recipeId],
                         IF variant = "memory"
                         THEN memGetAverageRating(reviews, recipeId)
                         ELSE getAverageRating(reviews, recipeId))
    /\ UNCHANGED <<calls, variant, stores, idCounter, now>>

(***************************************************************************)
(* RatingSpec: getAverageRating over any reviews of the stored recipes.    *)
(***************************************************************************)
\* up to MaxRated reviews by different users, with ratings that passed validation
RatedReviews(n, given) ==
    [i \in 1..n |->
        [id |-> i, recipeId |-> given[i][1], userId |-> ToString(i),
         userName |-> Undefined, rating |-> given[i][2], comment |-> Undefined,
         createdAt |-> 0, updatedAt |-> 0]]

RatingInit ==
    /\ variant \in {"memory", "repository"}
    /\ now = MaxTime
    /\ resp = NoResponse
    /\ calls = NoCalls
    /\ categories = <<>> /\ ingredients = <<>>
    /\ recipes \in {rs \in StoresOf(StoredRecipes, MaxRecipes) :
                        Len(rs) = MaxRecipes /\ \A i \in 1..Len(rs) : rs[i].prepTime = 0}
    /\ \E n \in 0..MaxRated : \E given \in [1..n -> (1..2) \X (1..5)] :
            reviews = RatedReviews(n, given)
    /\ idCounter = [recipe |-> Len(recipes) + 1, category |-> 1,
                    ingredient |-> 1, review |-> Len(reviews) + 1]

RatingNext == GetAverageRating

RatingSpec == RatingInit /\ [][RatingNext]_vars

\* the reviews of a recipe, and the sum of their ratings
ReviewsOf(recipeId) == {i \in 1..Len(reviews) : reviews[i].recipeId = recipeId}

RECURSIVE RatingSum(_)
RatingSum(is) ==
    IF is = {} THEN 0
    ELSE LET i == CHOOSE j \in is : TRUE
         IN  reviews[i].rating + RatingSum(is \ {i})

\* C11: getAverageRating(recipeId) returns count = the number of stored
\* reviews of that recipe and average = their mean rounded to the nearest
\* tenth, ties upward: average (in tenths) is the integer a with
\* a <= 10 * sum / count + 1/2 < a + 1; with no review it returns 0 and 0.
C11_AverageIsMeanRoundedToTenth ==
    resp.op = "ReviewService.getAverageRating" =>
        LET mine == ReviewsOf(resp.args.recipeId)
            count == Cardinality(mine)
            sum == RatingSum(mine)
            a == resp.result.average
        IN  /\ resp.result.count = count
            /\ IF count = 0 THEN a = 0
               ELSE /\ 2 * count * a <= 20 * sum + count
                    /\ 20 * sum + count < 2 * count * (a + 1)

\* the mean of four ratings lies halfway between two tenths
C11_Witness ==
    /\ resp.op = "ReviewService.getAverageRating"
    /\ LET mine == ReviewsOf(resp.args.recipeId)
       IN  /\ Cardinality(mine) = 4
           /\ (10 * RatingSum(mine)) % 4 = 2
           /\ resp.result.average * 4 = 10 * RatingSum(mine) + 2

(***************************************************************************)
(* createCategory and updateCategory served concurrently.  The service     *)
(* over the repository awaits every store access, so a call is suspended   *)
(* between its lookups and its write; the in-memory updateCategory awaits  *)
(* getCategoryById and runs on from there in one piece, and the in-memory  *)
(* createCategory never awaits.                                            *)
(***************************************************************************)
Suspend(slot, call) == calls' = [calls EXCEPT ![slot] = call]

Resume(slot) == calls' = [calls EXCEPT ![slot] = NoCall]

\* a new call is suspended in the first free slot
FreeSlots ==
    {slot \in 1..MaxCalls :
        calls[slot] = NoCall /\ \A other \in 1..(slot - 1) : calls[other] # NoCall}

SuspendedAt(pc) == {slot \in 1..MaxCalls : calls[slot].op # "none" /\ calls[slot].pc = pc}

\* the bodies of the racing requests: two spellings of one name, and the
\* empty name the in-memory routes let through
RacingCreateCategoryDtos == {data \in CreateCategoryDtos : data.name # <<"b">>}

RacingUpdateCategoryDtos ==
    {data \in UpdateCategoryDtos : "name" \in DOMAIN data /\ data.name # <<"b">>}

\* the in-memory createCategory, which never awaits
RacingCreateCategory ==
    /\ variant = "memory"
    /\ idCounter.category <= MaxCategories
    /\ \E data \in RacingCreateCategoryDtos : memCreateCategory(data)
    /\ UNCHANGED <<calls, variant, recipes, ingredients, reviews, now>>

\* createCategory over the repository up to its second await: the lookup
CreateCategoryLookup ==
    /\ variant = "repository"
    /\ \E slot \in FreeSlots, data \in RacingCreateCategoryDtos :
        LET op == "CategoryService.createCategory"
            existingCategory == findByNameCaseInsensitive(categories, data.name)
        IN  /\ isNonEmptyString(data.name)
            /\ IF IsDefined(existingCategory)
               THEN resp' = DuplicateCategory(op, data, "repository") /\ UNCHANGED calls
               ELSE /\ Suspend(slot, [op |-> op, pc |-> "createCategory", data |-> data])
                    /\ UNCHANGED resp
    /\ UNCHANGED <<variant, stores, idCounter, now>>

\* ... and from there: CategoryRepository.createCategory
CreateCategoryWrite ==
    /\ idCounter.category <= MaxCategories
    /\ \E slot \in SuspendedAt("createCategory") :
        /\ storeCategory(calls[slot].op, calls[slot].data)
        /\ Resume(slot)
    /\ UNCHANGED <<variant, recipes, ingredients, reviews, now>>

\* updateCategory of either service up to its first await: getCategoryById
UpdateCategoryGet ==
    /\ \E slot \in FreeSlots, id \in CategoryIds, data \in RacingUpdateCategoryDtos :
        LET op == "CategoryService.updateCategory"
            q == [id |-> id, data |-> data]
        IN  /\ variant = "repository" /\ "name" \in DOMAIN data
                => isNonEmptyString(data.name)
            /\ IF ~has(categories, id)
               THEN resp' = CategoryNotFound(op, q, variant) /\ UNCHANGED calls
               ELSE /\ Suspend(slot, [op |-> op, pc |-> "getCategoryById", id |-> id,
                                      data |-> data, category |-> get(categories, id)])
                    /\ UNCHANGED resp
    /\ UNCHANGED <<variant, stores, idCounter, now>>

\* the in-memory updateCategory after its await, on the category it fetched
memUpdateCategoryResume(id, data, category) ==
    LET op == "CategoryService.updateCategory"
        q == [id |-> id, data |-> data]
        existingCategory == \E i \in 1..Len(categories) :
            /\ categories[i].id # id
            /\ toLowerCase(categories[i].name) = toLowerCase(data.name)
        updatedCategory == With(With(category, data), [updatedAt |-> now])
    IN  IF "name" \in DOMAIN data /\ data.name # <<>> /\ existingCategory
        THEN resp' = DuplicateCategory(op, q, "memory") /\ UNCHANGED categories
        ELSE /\ categories' = set(categories, updatedCategory)
             /\ resp' = Returned(op, q, updatedCategory)

MemUpdateCategoryResume ==
    /\ variant = "memory"
    /\ \E slot \in SuspendedAt("getCategoryById") :
        /\ memUpdateCategoryResume(calls[slot].id, calls[slot].data, calls[slot].category)
        /\ Resume(slot)
    /\ UNCHANGED <<variant, recipes, ingredients, reviews, idCounter, now>>

\* updateCategory over the repository from getCategoryById to its next
\* await: existsByNameExcludingId when a name is given
UpdateCategoryExists ==
    /\ variant = "repository"
    /\ \E slot \in SuspendedAt("getCategoryById") :
        LET call == calls[slot]
            q == [id |-> call.id, data |-> call.data]
            isDuplicate == existsByNameExcludingId(categories, call.data.name, call.id)
        IN  IF "name" \in DOMAIN call.data /\ call.data.name # <<>> /\ isDuplicate
            THEN resp' = DuplicateCategory(call.op, q, "repository") /\ Resume(slot)
            ELSE Suspend(slot, [call EXCEPT !.pc = "updateCategory"]) /\ UNCHANGED resp
    /\ UNCHANGED <<variant, stores, idCounter, now>>

\* ... and from there: CategoryRepository.updateCategory and its result
UpdateCategoryWrite ==
    /\ \E slot \in SuspendedAt("updateCategory") :
        LET call == calls[slot]
            q == [id |-> call.id, data |-> call.data]
        IN  /\ IF ~IsDefined(findById(categories, call.id))
               THEN /\ resp' = AppError(call.op, q, "Failed to update category",
                                        "UPDATE_FAILED", 500)
                    /\ UNCHANGED categories
               ELSE /\ categories' = update(categories, call.id, call.data)
                    /\ resp' = Returned(call.op, q, get(categories', call.id))
            /\ Resume(slot)
    /\ UNCHANGED <<variant, recipes, ingredients, reviews, idCounter, now>>

CategoryRaceNext ==
    \/ RacingCreateCategory
    \/ CreateCategoryLookup
    \/ CreateCategoryWrite
    \/ UpdateCategoryGet
    \/ MemUpdateCategoryResume
    \/ UpdateCategoryExists
    \/ UpdateCategoryWrite

CategoryRaceSpec == CategoryInit /\ [][CategoryRaceNext]_vars

\* C12: in every reachable state, concurrent createCategory and
\* updateCategory included, no two stored categories have names that are
\* equal ignoring letter case
C12_CategoryNamesUniqueIgnoringCase ==
    \A i, j \in 1..Len(categories) :
        i # j => toLowerCase(categories[i].name) # toLowerCase(categories[j].name)

(***************************************************************************)
(* createReview served concurrently.  Both services await                  *)
(* recipeService.getRecipeById first; the in-memory service runs on from   *)
(* there in one piece, the service over the repository awaits              *)
(* findByRecipeAndUser and then ReviewRepository.createReview.             *)
(***************************************************************************)
CreateReviewGetRecipe ==
    /\ \E slot \in FreeSlots, recipeId \in RecipeIds, userId \in Users,
          data \in CreateReviewDtos :
        LET op == "ReviewService.createReview"
            q == [recipeId |-> recipeId, userId |-> userId, data |-> data]
        IN  /\ variant = "repository" => data.rating \in ValidRatings
            /\ IF ~has(recipes, recipeId)
               THEN resp' = RecipeNotFound(op, q) /\ UNCHANGED calls
               ELSE /\ Suspend(slot, [op |-> op, pc |-> "getRecipeById",
                                      recipeId |-> recipeId, userId |-> userId,
                                      data |-> data])
                    /\ UNCHANGED resp
    /\ UNCHANGED <<variant, stores, idCounter, now>>

\* the in-memory createReview after its await; no recipe is deleted meanwhile
MemCreateReviewResume ==
    /\ variant = "memory"
    /\ idCounter.review <= MaxReviews
    /\ \E slot \in SuspendedAt("getRecipeById") :
        LET call == calls[slot]
        IN  /\ memCreateReview(call.recipeId, call.userId, UserNames[call.userId],
                               call.data)
            /\ Resume(slot)
    /\ UNCHANGED <<variant, recipes, categories, ingredients, now>>

CreateReviewLookup ==
    /\ variant = "repository"
    /\ \E slot \in SuspendedAt("getRecipeById") :
        LET call == calls[slot]
            q == [recipeId |-> call.recipeId, userId |-> call.userId,
                  data |-> call.data]
            existingReview == findByRecipeAndUser(reviews, call.recipeId, call.userId)
        IN  IF IsDefined(existingReview)
            THEN /\ resp' = AppError(call.op, q, "You have already reviewed this recipe",
                                     "DUPLICATE_REVIEW", 400)
                 /\ Resume(slot)
            ELSE Suspend(slot, [call EXCEPT !.pc = "createReview"]) /\ UNCHANGED resp
    /\ UNCHANGED <<variant, stores, idCounter, now>>

CreateReviewWrite ==
    /\ idCounter.review <= MaxReviews
    /\ \E slot \in SuspendedAt("createReview") :
        LET call == calls[slot]
            q == [recipeId |-> call.recipeId, userId |-> call.userId,
                  data |-> call.data]
            id == idCounter.review
            review == [id |-> id, recipeId |-> call.recipeId, userId |-> call.userId,
                       userName |-> UserNames[call.userId], rating |-> call.data.rating,
                       comment |-> call.data.comment, createdAt |-> now,
                       updatedAt |-> now]
        IN  /\ reviews' = set(reviews, review)
            /\ idCounter' = [idCounter EXCEPT !.review = id + 1]
            /\ resp' = Returned(call.op, q, review)
            /\ Resume(slot)
    /\ UNCHANGED <<variant, recipes, categories, ingredients, now>>

ReviewRaceInit ==
    /\ variant \in {"memory", "repository"}
    /\ recipes \in OneRecipe
    /\ categories = <<>> /\ ingredients = <<>> /\ reviews = <<>>
    /\ idCounter = [recipe |-> Len(recipes) + 1, category |-> 1, ingredient |-> 1,
                    review |-> 1]
    /\ now = 0
    /\ resp = NoResponse
    /\ calls = NoCalls

ReviewRaceNext ==
    \/ CreateReviewGetRecipe
    \/ MemCreateReviewResume
    \/ CreateReviewLookup
    \/ CreateReviewWrite

ReviewRaceSpec == ReviewRaceInit /\ [][ReviewRaceNext]_vars

\* C13: in every reachable state, concurrent createReview included, at most
\* one stored review exists per (recipeId, userId) pair
C13_OneReviewPerRecipeAndUser ==
    \A i, j \in 1..Len(reviews) :
        reviews[i].recipeId = reviews[j].recipeId /\ reviews[i].userId = reviews[j].userId
            => i = j

(***************************************************************************)
(* LinkSpec: recipes, their categories and their ingredients from the      *)
(* construction of the services on, one request after the other.           *)
(***************************************************************************)
\* the response is sent and the next request is taken up
NextRequest ==
    /\ ~Idle
    /\ resp' = NoResponse
    /\ UNCHANGED <<calls, variant, stores, idCounter, now>>

LinkedCreateRecipe == idCounter.recipe <= MaxRecipes /\ CreateRecipe

UpdateRecipeCategoryDtos == {[categoryIds |-> <<2>>]}

UpdateRecipeCategories ==
    /\ Idle
    /\ \E id \in RecipeIds, userId \in Users, data \in UpdateRecipeCategoryDtos :
        updateRecipe(id, userId, data)
    /\ UNCHANGED <<calls, variant, categories, ingredients, reviews, idCounter, now>>

LinkedCreateIngredient == idCounter.ingredient <= MaxIngredients /\ CreateIngredient

\* removeIngredientFromRecipe putting the ids that follow the removed one first
removeIngredientFromRecipeRotating(map, recipeId, ingredientId) ==
    LET recipe == get(map, recipeId)
        before(id) == id < ingredientId
        after(id) == id > ingredientId
    IN  set(map, With(recipe,
                [ingredientIds |-> filter(recipe.ingredientIds, after)
                                     \o filter(recipe.ingredientIds, before),
                 updatedAt |-> now]))

\* RecipeService.removeIngredientFromRecipe, for a recipe that is stored
removeIngredientFromRecipe(map, recipeId, ingredientId) ==
    LET recipe == get(map, recipeId)
        kept(id) == id # ingredientId
    IN  set(map, With(recipe, [ingredientIds |-> filter(recipe.ingredientIds, kept),
                               updatedAt |-> now]))

deleteIngredient(id) ==
    LET op == "IngredientService.deleteIngredient"
        q == [id |-> id]
        ingredient == get(ingredients, id)
    IN  IF ~has(ingredients, id)
        THEN /\ resp' = AppError(op, q, "Ingredient not found",
                                 Code(variant, "INGREDIENT_NOT_FOUND"), 404)
             /\ UNCHANGED <<recipes, ingredients>>
        ELSE IF ~has(recipes, ingredient.recipeId)
        THEN resp' = RecipeNotFound(op, q) /\ UNCHANGED <<recipes, ingredients>>
        ELSE /\ recipes' = removeIngredientFromRecipe(recipes, ingredient.recipeId, id)
             /\ ingredients' = delete(ingredients, id)
             /\ resp' = Returned(op, q, <<>>)

IngredientIds == 1..MaxIngredients

DeleteIngredient ==
    /\ Idle
    /\ \E id \in IngredientIds : deleteIngredient(id)
    /\ UNCHANGED <<calls, variant, categories, reviews, idCounter, now>>

LinkedCreateCategory == Idle /\ CreateCategory

LinkedDeleteCategory == Idle /\ DeleteCategory

LinkNext ==
    \/ NextRequest
    \/ LinkedCreateRecipe
    \/ UpdateRecipeCategories
    \/ DeleteRecipe
    \/ LinkedCreateIngredient
    \/ DeleteIngredient
    \/ LinkedCreateCategory
    \/ LinkedDeleteCategory

LinkSpec == CategoryInit /\ [][LinkNext]_vars

\* C14: between requests every id in a stored recipe's categoryIds is the
\* id of a stored category and every id in its ingredientIds is the id of a
\* stored ingredient
C14_RecipesReferToStoredCategoriesAndIngredients ==
    \A i \in 1..Len(recipes) :
        /\ \A c \in Range(recipes[i].categoryIds) : has(categories, c)
        /\ \A g \in Range(recipes[i].ingredientIds) : has(ingredients, g)

\* the half of it that concerns the ingredients alone
C14_IngredientIdsReferToStoredIngredients ==
    \A i \in 1..Len(recipes) :
        \A g \in Range(recipes[i].ingredientIds) : has(ingredients, g)

(***************************************************************************)
(* EntitySpec: the life of single entities.  With variant = "memory" the   *)
(* recipes of RecipeService, with variant = "repository" a                 *)
(* BaseRepository<Category> on the categories collection; the clock moves  *)
(* on between requests and between two reads of one handler.               *)
(***************************************************************************)
\* Omit<Category, 'id'> values handed to BaseRepository.create
EntityData ==
    {With(b, [createdAt |-> 1, updatedAt |-> 0]) :
        b \in {c \in CategoryBodies : Len(c.name) = 1}}

\* create spreading the data over the stamps instead of under them
createKeepingGivenStamps(data) ==
    LET docRef == [id |-> idCounter.category]
        entityData == With([createdAt |-> now, updatedAt |-> now], data)
    IN  /\ categories' = set(categories, With(entityData, [id |-> docRef.id]))
        /\ idCounter' = [idCounter EXCEPT !.category = docRef.id + 1]
        /\ resp' = Returned("BaseRepository.create", [data |-> data],
                            With([id |-> docRef.id], entityData))

\* BaseRepository.create
create(data) ==
    LET docRef == [id |-> idCounter.category]
        entityData == With(data, [createdAt |-> now, updatedAt |-> now])
    IN  /\ categories' = set(categories, With(entityData, [id |-> docRef.id]))
        /\ idCounter' = [idCounter EXCEPT !.category = docRef.id + 1]
        /\ resp' = Returned("BaseRepository.create", [data |-> data],
                            With([id |-> docRef.id], entityData))

Create ==
    /\ Idle
    /\ variant = "repository"
    /\ idCounter.category <= MaxCategories
    /\ \E data \in EntityData : create(data)
    /\ UNCHANGED <<calls, variant, recipes, ingredients, reviews, now>>

EntityCreateRecipe == variant = "memory" /\ LinkedCreateRecipe

\* the old recipe routes pass the request body on as it came
RawUpdateRecipeDtos == UpdateRecipeDtos \cup {[id |-> 2, servings |-> 3]}

EntityUpdateRecipe ==
    /\ Idle
    /\ variant = "memory"
    /\ \E id \in RecipeIds, userId \in Users, data \in RawUpdateRecipeDtos :
        updateRecipe(id, userId, data)
    /\ UNCHANGED <<calls, variant, categories, ingredients, reviews, idCounter, now>>

EntityDeleteRecipe == variant = "memory" /\ DeleteRecipe

\* Partial<Category> values handed to BaseRepository.update
EntityUpdates == {[name |-> <<"b">>], [id |-> 2, description |-> Some(<<"b">>)]}

\* BaseRepository.update: null for a document that is not stored
Update ==
    /\ Idle
    /\ variant = "repository"
    /\ \E id \in CategoryIds, data \in EntityUpdates :
        /\ categories' = update(categories, id, data)
        /\ resp' = Returned("BaseRepository.update", [id |-> id, data |-> data],
                            findById(categories', id))
    /\ UNCHANGED <<calls, variant, recipes, ingredients, reviews, idCounter, now>>

\* delete answering true whether or not the document was stored
DeleteAnsweringTrue ==
    /\ Idle
    /\ variant = "repository"
    /\ \E id \in CategoryIds :
        /\ categories' = delete(categories, id)
        /\ resp' = Returned("BaseRepository.delete", [id |-> id], TRUE)
    /\ UNCHANGED <<calls, variant, recipes, ingredients, reviews, idCounter, now>>

\* BaseRepository.delete
Delete ==
    /\ Idle
    /\ variant = "repository"
    /\ \E id \in CategoryIds :
        /\ categories' = IF has(categories, id) THEN delete(categories, id)
                          ELSE categories
        /\ resp' = Returned("BaseRepository.delete", [id |-> id], has(categories, id))
    /\ UNCHANGED <<calls, variant, recipes, ingredients, reviews, idCounter, now>>

EntityNext ==
    \/ Tick
    \/ NextRequest
    \/ Create
    \/ EntityCreateRecipe
    \/ EntityUpdateRecipe
    \/ EntityDeleteRecipe
    \/ Update
    \/ Delete

EntitySpec == CategoryInit /\ [][EntityNext]_vars

\* a step in which a create returns its entity
CreateReturns(op) == Idle /\ resp'.op = op /\ resp'.err = NoError

UpdateSucceeds(op) ==
    /\ Idle /\ resp'.op = op /\ resp'.err = NoError
    /\ op = "BaseRepository.update" => IsDefined(resp'.result)

\* C16: updatedAt >= createdAt for every stored entity in every reachable
\* state, and every successful update leaves the entity with an updatedAt
\* strictly greater than the one it had before
C16_UpdatedAtNeverBeforeCreatedAtAndStrictlyGrowing ==
    /\ [](/\ \A i \in 1..Len(recipes) : recipes[i].updatedAt >= recipes[i].createdAt
          /\ \A i \in 1..Len(categories) :
                categories[i].updatedAt >= categories[i].createdAt)
    /\ [][/\ UpdateSucceeds("RecipeService.updateRecipe") =>
                get(recipes', resp'.args.id).updatedAt
                    > get(recipes, resp'.args.id).updatedAt
          /\ UpdateSucceeds("BaseRepository.update") =>
                get(categories', resp'.args.id).updatedAt
                    > get(categories, resp'.args.id).updatedAt]_vars

\* what the code does guarantee: updatedAt never before createdAt, and never
\* moved back by an update
C16_UpdatedAtNeverBeforeCreatedAtAndNeverMovedBack ==
    /\ [](/\ \A i \in 1..Len(recipes) : recipes[i].updatedAt >= recipes[i].createdAt
          /\ \A i \in 1..Len(categories) :
                categories[i].updatedAt >= categories[i].createdAt)
    /\ [][/\ UpdateSucceeds("RecipeService.updateRecipe") =>
                get(recipes', resp'.args.id).updatedAt
                    >= get(recipes, resp'.args.id).updatedAt
          /\ UpdateSucceeds("BaseRepository.update") =>
                get(categories', resp'.args.id).updatedAt
                    >= get(categories, resp'.args.id).updatedAt]_vars

\* what an update step from store to store' leaves alone
UpdateKeepsTheRest(store, storeAfter, id, data) ==
    LET before == get(store, id)
        after == get(storeAfter, id)
    IN  /\ has(storeAfter, id)
        /\ DOMAIN after = DOMAIN before \cup (DOMAIN data \ {"id"})
        /\ \A k \in DOMAIN before \ ((DOMAIN data \ {"id"}) \cup {"updatedAt"}) :
                after[k] = before[k]
        /\ after.id = id
        /\ "id" \in DOMAIN data /\ data.id # id /\ has(storeAfter, data.id)
                => has(store, data.id)

\* C17: an update changes only the fields named in its data plus updatedAt,
\* and never the id: after update(id, data) with another data.id the entity
\* fetched under id still has id as its id and nothing new is fetched under
\* data.id
C17_UpdateChangesOnlyNamedFieldsAndNeverTheId ==
    [][/\ UpdateSucceeds("RecipeService.updateRecipe") =>
            UpdateKeepsTheRest(recipes, recipes', resp'.args.id, resp'.args.data)
       /\ UpdateSucceeds("BaseRepository.update") =>
            UpdateKeepsTheRest(categories, categories', resp'.args.id,
                               resp'.args.data)]_vars

\* the same of BaseRepository.update alone
C17_RepositoryUpdateChangesOnlyNamedFieldsAndNeverTheId ==
    [][UpdateSucceeds("BaseRepository.update") =>
            UpdateKeepsTheRest(categories, categories', resp'.args.id,
                               resp'.args.data)]_vars

\* C18: BaseRepository.delete(id) returns true and removes the record when
\* one is stored under id, and returns false, without throwing and without
\* changing the store, when none is; so a second delete(id) returns false
C18_DeleteAnswersWhetherItRemoved ==
    [][Idle /\ resp'.op = "BaseRepository.delete" =>
        /\ resp'.err = NoError
        /\ IF has(categories, resp'.args.id)
           THEN /\ resp'.result = TRUE
                /\ ~has(categories', resp'.args.id)
                /\ \A id \in CategoryIds \ {resp'.args.id} :
                        findById(categories', id) = findById(categories, id)
           ELSE /\ resp'.result = FALSE
                /\ categories' = categories]_vars

\* delete(id) has answered false for an id that was handed out before: the
\* record was deleted by an earlier call, while another record is stored
C18_Witness ==
    /\ resp.op = "BaseRepository.delete" /\ resp.result = FALSE
    /\ resp.args.id < idCounter.category
    /\ ~has(categories, resp.args.id)
    /\ categories # <<>>

(***************************************************************************)
(* BulkSpec: the ingredients of one recipe, one request at a time.  Inside *)
(* bulkCreateIngredients the in-memory service starts a createIngredient   *)
(* per item under Promise.all; each runs to its next await and is resumed  *)
(* from the microtask queue, which is first in, first out.  Here calls is  *)
(* that queue.  The service over the repository awaits item after item.    *)
(***************************************************************************)
MaxBulk == 2

BulkIngredientDtos == {b \in IngredientBodies : Len(b.name) = 2}

BulkLists ==
    UNION {[1..n -> BulkIngredientDtos] : n \in 1..MaxBulk}

\* the microtask run first, taken from the wrong end of the queue
lastMicrotask(queue) == Len(queue)

\* the microtask run first: the one queued first
nextMicrotask(queue) == 1

dequeue(queue) ==
    LET run == nextMicrotask(queue)
        rest(i) == IF i < run THEN queue[i] ELSE queue[i + 1]
    IN  [i \in 1..(Len(queue) - 1) |-> rest(i)]

\* the ingredients a finished bulkCreateIngredients returns, in input order
bulkResult(coll, first, n) == [i \in 1..n |-> get(coll, first + i - 1)]

BulkCreateIngredients ==
    /\ Idle /\ calls = <<>>
    /\ \E recipeId \in RecipeIds, ingredientsData \in BulkLists :
        LET op == "IngredientService.bulkCreateIngredients"
            q == [recipeId |-> recipeId, ingredientsData |-> ingredientsData]
            first == idCounter.ingredient
            started(i) == [op |-> op, pc |-> "getRecipeById", q |-> q, item |-> i,
                           first |-> first]
            looping == [op |-> op, pc |-> "for", q |-> q, item |-> 1, first |-> first]
        IN  /\ first + Len(ingredientsData) <= MaxStored + 1
            /\ IF ~has(recipes, recipeId)
               THEN resp' = RecipeNotFound(op, q) /\ UNCHANGED calls
               ELSE /\ calls' = IF variant = "memory"
                                THEN [i \in 1..Len(ingredientsData) |-> started(i)]
                                ELSE <<looping>>
                    /\ UNCHANGED resp
    /\ UNCHANGED <<variant, stores, idCounter, now>>

\* the answer of bulkCreateIngredients once nothing of it is queued any more
bulkAnswer(call, queue, coll) ==
    IF queue = <<>>
    THEN Returned(call.op, call.q,
                  bulkResult(coll, call.first, Len(call.q.ingredientsData)))
    ELSE resp

RunMicrotask ==
    /\ calls # <<>>
    /\ LET call == calls[nextMicrotask(calls)]
           data == call.q.ingredientsData[call.item]
           recipeId == call.q.recipeId
           id == idCounter.ingredient
           ingredient == With(data, [id |-> id, recipeId |-> recipeId,
                                     createdAt |-> now, updatedAt |-> now])
       IN  \/ /\ call.pc = "getRecipeById"
              /\ ingredients' = set(ingredients, ingredient)
              /\ idCounter' = [idCounter EXCEPT !.ingredient = id + 1]
              /\ calls' = Append(dequeue(calls),
                                 [call EXCEPT !.pc = "addIngredientToRecipe"]
                                     @@ [id |-> id])
              /\ UNCHANGED <<recipes, resp>>
           \/ /\ call.pc = "addIngredientToRecipe"
              /\ recipes' = addIngredientToRecipe(recipes, recipeId, call.id)
              /\ calls' = dequeue(calls)
              /\ resp' = bulkAnswer(call, calls', ingredients)
              /\ UNCHANGED <<ingredients, idCounter>>
           \/ /\ call.pc = "for"
              /\ ingredients' = set(ingredients, ingredient)
              /\ idCounter' = [idCounter EXCEPT !.ingredient = id + 1]
              /\ recipes' = addIngredientToRecipe(recipes, recipeId, id)
              /\ calls' = IF call.item < Len(call.q.ingredientsData)
                          THEN Append(dequeue(calls), [call EXCEPT !.item = @ + 1])
                          ELSE dequeue(calls)
              /\ resp' = bulkAnswer(call, calls', ingredients')
    /\ UNCHANGED <<variant, categories, reviews, now>>

SingleCreateIngredient ==
    /\ calls = <<>>
    /\ idCounter.ingredient <= MaxStored
    /\ Idle
    /\ \E recipeId \in RecipeIds, data \in BulkIngredientDtos :
        createIngredient(recipeId, data)
    /\ UNCHANGED <<calls, variant, categories, reviews, now>>

SingleDeleteIngredient ==
    /\ calls = <<>>
    /\ Idle
    /\ \E id \in 1..MaxStored : deleteIngredient(id)
    /\ UNCHANGED <<calls, variant, categories, reviews, idCounter, now>>

BulkInit ==
    /\ variant \in {"memory", "repository"}
    /\ recipes \in OneRecipe
    /\ categories = <<>> /\ ingredients = <<>> /\ reviews = <<>>
    /\ idCounter = [recipe |-> Len(recipes) + 1, category |-> 1, ingredient |-> 1,
                    review |-> 1]
    /\ now = MaxTime
    /\ resp = NoResponse
    /\ calls = <<>>

BulkNext ==
    \/ NextRequest
    \/ SingleCreateIngredient
    \/ SingleDeleteIngredient
    \/ BulkCreateIngredients
    \/ RunMicrotask

BulkSpec == BulkInit /\ [][BulkNext]_vars

\* the ids of the stored ingredients of a recipe, in the order of creation
RECURSIVE IngredientsOf(_, _)
IngredientsOf(coll, recipeId) ==
    IF coll = <<>> THEN <<>>
    ELSE LET rest == IngredientsOf(Tail(coll), recipeId)
         IN  IF coll[1].recipeId = recipeId THEN <<coll[1].id>> \o rest ELSE rest

\* the fields of a stored ingredient that came with the request
GivenFields(ingredient) == [k \in {"name", "unit", "quantity"} |-> ingredient[k]]

\* C19: with one request at a time, a successful createIngredient stores an
\* ingredient of the recipe and appends its id to the recipe's
\* ingredientIds; between requests ingredientIds lists the recipe's stored
\* ingredients in creation order; and bulkCreateIngredients leaves the new
\* ids at the end of ingredientIds in the order of its input list
C19_IngredientIdsInCreationOrder ==
    /\ [][Idle /\ resp'.op = "IngredientService.createIngredient"
               /\ resp'.err = NoError =>
            /\ get(ingredients', resp'.result.id) = resp'.result
            /\ resp'.result.recipeId = resp'.args.recipeId
            /\ get(recipes', resp'.args.recipeId).ingredientIds
                = Append(get(recipes, resp'.args.recipeId).ingredientIds,
                         resp'.result.id)]_vars
    /\ [](calls = <<>> =>
            \A i \in 1..Len(recipes) :
                recipes[i].ingredientIds = IngredientsOf(ingredients, recipes[i].id))
    /\ [](resp.op = "IngredientService.bulkCreateIngredients" /\ resp.err = NoError =>
            LET ids == get(recipes, resp.args.recipeId).ingredientIds
                n == Len(resp.args.ingredientsData)
                added(i) == ids[Len(ids) - n + i]
            IN  /\ Len(ids) >= n
                /\ \A i \in 1..n :
                    /\ GivenFields(get(ingredients, added(i)))
                            = resp.args.ingredientsData[i]
                    /\ resp.result[i] = get(ingredients, added(i))
                    /\ get(ingredients, added(i)).recipeId = resp.args.recipeId)

\* bulkCreateIngredients of two different items has answered for a recipe
\* that had an ingredient before
C19_Witness ==
    /\ resp.op = "IngredientService.bulkCreateIngredients" /\ resp.err = NoError
    /\ Len(resp.args.ingredientsData) = 2
    /\ resp.args.ingredientsData[1] # resp.args.ingredientsData[2]
    /\ Len(get(recipes, resp.args.recipeId).ingredientIds) = 3

(***************************************************************************)
(* RatingRuleSpec: reviews written and rewritten, one request at a time,   *)
(* through the routes that hand the request body to the service as it      *)
(* came.                                                                   *)
(***************************************************************************)
PostReview ==
    /\ Idle
    /\ idCounter.review <= MaxReviews
    /\ \E recipeId \in RecipeIds, userId \in Users, data \in CreateReviewDtos :
        IF variant = "memory"
        THEN memCreateReview(recipeId, userId, UserNames[userId], data)
        ELSE createReview(recipeId, userId, UserNames[userId], data)
    /\ UNCHANGED <<calls, variant, recipes, categories, ingredients, now>>

PutReview ==
    /\ Idle
    /\ \E id \in ReviewIds, userId \in Users, data \in UpdateReviewDtos :
        IF variant = "memory"
        THEN memUpdateReview(id, userId, data)
        ELSE updateReview(id, userId, data)
    /\ UNCHANGED <<calls, variant, recipes, categories, ingredients, idCounter, now>>

RatingRuleNext ==
    \/ NextRequest
    \/ PostReview
    \/ PutReview

RatingRuleSpec == ReviewRaceInit /\ [][RatingRuleNext]_vars

\* a createReview or updateReview call answers a request that carries a
\* rating outside 1..5
AnswersBadRating ==
    /\ Idle
    /\ resp'.op \in {"ReviewService.createReview", "ReviewService.updateReview"}
    /\ "rating" \in DOMAIN resp'.args.data
    /\ resp'.args.data.rating \notin 1..5

\* C20: every stored review has an integer rating between 1 and 5 after any
\* sequence of createReview and updateReview calls, and a create or update
\* carrying another rating is rejected with an error and leaves the review
\* store unchanged
C20_StoredRatingsAreWholeAndBetween1And5 ==
    /\ [](\A i \in 1..Len(reviews) : reviews[i].rating \in 1..5)
    /\ [][AnswersBadRating => resp'.err # NoError /\ reviews' = reviews]_vars

\* the same of the in-memory service alone, which validates the rating
C20_InMemoryStoredRatingsAreWholeAndBetween1And5 ==
    /\ [](variant = "memory" => \A i \in 1..Len(reviews) : reviews[i].rating \in 1..5)
    /\ [][variant = "memory" /\ AnswersBadRating
            => resp'.err # NoError /\ reviews' = reviews]_vars

(***************************************************************************)
(* IngredientRaceSpec: createIngredient and deleteIngredient calls served  *)
(* concurrently on the ingredients of one recipe.  Each call runs from one *)
(* await of the service to the next; a call that has answered stays in its *)
(* slot with its answer.  No recipe is updated or deleted meanwhile, so    *)
(* the recipe object that recipeService.getRecipeById hands out is the one *)
(* object the Map holds: what addIngredientToRecipe and                    *)
(* removeIngredientFromRecipe do after their own await is done on the      *)
(* stored recipe, in one piece.                                            *)
(***************************************************************************)
Finish(slot, call, answer) ==
    /\ calls' = [calls EXCEPT ![slot] = [call EXCEPT !.pc = "done"] @@ [answer |-> answer]]
    /\ resp' = answer

Done(slot) == calls[slot].op # "none" /\ calls[slot].pc = "done"

Succeeded(slot) == Done(slot) /\ calls[slot].answer.err = NoError

\* createIngredient up to its first store access: recipeService.getRecipeById
StartCreateIngredient ==
    /\ \E slot \in FreeSlots, recipeId \in RecipeIds, data \in CreateIngredientDtos :
        LET op == "IngredientService.createIngredient"
            q == [recipeId |-> recipeId, data |-> data]
            call == [op |-> op, pc |-> "createIngredient", q |-> q]
        IN  IF ~has(recipes, recipeId)
            THEN Finish(slot, call, RecipeNotFound(op, q))
            ELSE Suspend(slot, call) /\ UNCHANGED resp
    /\ UNCHANGED <<variant, stores, idCounter, now>>

\* the ingredient record is stored under a fresh id
StoreIngredient ==
    /\ idCounter.ingredient <= MaxStored
    /\ \E slot \in SuspendedAt("createIngredient") :
        LET call == calls[slot]
            id == idCounter.ingredient
            ingredient == With(call.q.data, [id |-> id, recipeId |-> call.q.recipeId,
                                             createdAt |-> now, updatedAt |-> now])
        IN  /\ ingredients' = set(ingredients, ingredient)
            /\ idCounter' = [idCounter EXCEPT !.ingredient = id + 1]
            /\ Suspend(slot, [call EXCEPT !.pc = "addIngredientToRecipe"]
                                 @@ [ingredient |-> ingredient])
    /\ UNCHANGED <<variant, recipes, categories, reviews, now, resp>>

\* recipeService.addIngredientToRecipe(recipeId, ingredient.id), then return
LinkIngredient ==
    /\ \E slot \in SuspendedAt("addIngredientToRecipe") :
        LET call == calls[slot]
        IN  IF ~has(recipes, call.q.recipeId)
            THEN Finish(slot, call, RecipeNotFound(call.op, call.q)) /\ UNCHANGED recipes
            ELSE /\ recipes' = addIngredientToRecipe(recipes, call.q.recipeId,
                                                     call.ingredient.id)
                 /\ Finish(slot, call, Returned(call.op, call.q, call.ingredient))
    /\ UNCHANGED <<variant, categories, ingredients, reviews, idCounter, now>>

\* deleteIngredient up to the end of getIngredientById
StartDeleteIngredient ==
    /\ \E slot \in FreeSlots, id \in IngredientIds :
        LET op == "IngredientService.deleteIngredient"
            q == [id |-> id]
            call == [op |-> op, pc |-> "removeIngredientFromRecipe", q |-> q]
        IN  IF ~has(ingredients, id)
            THEN Finish(slot, call, AppError(op, q, "Ingredient not found",
                                             Code(variant, "INGREDIENT_NOT_FOUND"), 404))
            ELSE /\ Suspend(slot, call @@ [ingredient |-> get(ingredients, id)])
                 /\ UNCHANGED resp
    /\ UNCHANGED <<variant, stores, idCounter, now>>

\* recipeService.removeIngredientFromRecipe(ingredient.recipeId, id)
UnlinkIngredient ==
    /\ \E slot \in SuspendedAt("removeIngredientFromRecipe") :
        LET call == calls[slot]
            recipeId == call.ingredient.recipeId
        IN  IF ~has(recipes, recipeId)
            THEN Finish(slot, call, RecipeNotFound(call.op, call.q)) /\ UNCHANGED recipes
            ELSE /\ recipes' = removeIngredientFromRecipe(recipes, recipeId, call.q.id)
                 /\ Suspend(slot, [call EXCEPT !.pc = "delete"])
                 /\ UNCHANGED resp
    /\ UNCHANGED <<variant, categories, ingredients, reviews, idCounter, now>>

\* in-memory: this.ingredients.delete(id), and the call returns
MemDeleteIngredientRecord ==
    /\ variant = "memory"
    /\ \E slot \in SuspendedAt("delete") :
        LET call == calls[slot]
        IN  /\ ingredients' = delete(ingredients, call.q.id)
            /\ Finish(slot, call, Returned(call.op, call.q, <<>>))
    /\ UNCHANGED <<variant, recipes, categories, reviews, idCounter, now>>

\* BaseRepository.delete up to its docRef.get(): false when the document is
\* not there, which the service turns into DELETE_FAILED
DeleteIngredientGet ==
    /\ variant = "repository"
    /\ \E slot \in SuspendedAt("delete") :
        LET call == calls[slot]
        IN  IF ~has(ingredients, call.q.id)
            THEN Finish(slot, call, AppError(call.op, call.q, "Failed to delete ingredient",
                                             "DELETE_FAILED", 500))
            ELSE Suspend(slot, [call EXCEPT !.pc = "docRef.delete"]) /\ UNCHANGED resp
    /\ UNCHANGED <<variant, stores, idCounter, now>>

\* docRef.delete(), which succeeds whether or not the document is still
\* there; BaseRepository.delete returns true
DeleteIngredientWrite ==
    /\ \E slot \in SuspendedAt("docRef.delete") :
        LET call == calls[slot]
        IN  /\ ingredients' = delete(ingredients, call.q.id)
            /\ Finish(slot, call, Returned(call.op, call.q, <<>>))
    /\ UNCHANGED <<variant, recipes, categories, reviews, idCounter, now>>

\* one recipe with up to MaxStored - 1 ingredients, linked in creation order
LinkedIngredients(n) ==
    [i \in 1..n |->
        With(CHOOSE b \in IngredientBodies : b.quantity = 2,
             [id |-> i, recipeId |-> 1, createdAt |-> 0, updatedAt |-> 0])]

IngredientRaceInit ==
    /\ variant \in {"memory", "repository"}
    /\ \E n \in 0..(MaxStored - 1) :
        /\ ingredients = LinkedIngredients(n)
        /\ \E r \in OneRecipe :
            /\ r # <<>>
            /\ recipes = <<With(r[1], [ingredientIds |-> [i \in 1..n |-> i]])>>
    /\ categories = <<>> /\ reviews = <<>>
    /\ idCounter = [recipe |-> Len(recipes) + 1, category |-> 1,
                    ingredient |-> Len(ingredients) + 1, review |-> 1]
    /\ now = MaxTime
    /\ resp = NoResponse
    /\ calls = NoCalls

IngredientRaceNext ==
    \/ StartCreateIngredient
    \/ StoreIngredient
    \/ LinkIngredient
    \/ StartDeleteIngredient
    \/ UnlinkIngredient
    \/ MemDeleteIngredientRecord
    \/ DeleteIngredientGet
    \/ DeleteIngredientWrite

IngredientRaceSpec == IngredientRaceInit /\ [][IngredientRaceNext]_vars

\* the createIngredient calls, and what has become of the ingredient of one
CreateCalls ==
    {slot \in 1..MaxCalls : calls[slot].op = "IngredientService.createIngredient"}

DeleteOf(id) ==
    {slot \in 1..MaxCalls :
        calls[slot].op = "IngredientService.deleteIngredient" /\ calls[slot].q.id = id}

LinkedTo(recipeId, id) ==
    has(recipes, recipeId) /\ id \in Range(get(recipes, recipeId).ingredientIds)

\* two createIngredient calls on one recipe have both returned their ingredient
BothCreated(s, t) ==
    /\ s # t /\ s \in CreateCalls /\ t \in CreateCalls
    /\ Succeeded(s) /\ Succeeded(t)
    /\ calls[s].q.recipeId = calls[t].q.recipeId

UpdateIngredientDtos == {[quantity |-> 3]}

\* the rejection of docRef.update(): not an AppError of the services
StoreError(op, q) ==
    [op |-> op, args |-> q, err |-> "No document to update", code |-> "not-found",
     status |-> 500]

\* updateIngredient up to the end of getIngredientById
StartUpdateIngredient ==
    /\ \E slot \in FreeSlots, id \in IngredientIds, data \in UpdateIngredientDtos :
        LET op == "IngredientService.updateIngredient"
            q == [id |-> id, data |-> data]
            call == [op |-> op, pc |-> "update", q |-> q]
        IN  IF ~has(ingredients, id)
            THEN Finish(slot, call, AppError(op, q, "Ingredient not found",
                                             Code(variant, "INGREDIENT_NOT_FOUND"), 404))
            ELSE /\ Suspend(slot, call @@ [ingredient |-> get(ingredients, id)])
                 /\ UNCHANGED resp
    /\ UNCHANGED <<variant, stores, idCounter, now>>

\* in-memory: the record read before the await is written back with the
\* changes
MemUpdateIngredientResume ==
    /\ variant = "memory"
    /\ \E slot \in SuspendedAt("update") :
        LET call == calls[slot]
            updatedIngredient == With(With(call.ingredient, call.q.data),
                                      [updatedAt |-> now])
        IN  /\ ingredients' = set(ingredients, filed(call.q.id, updatedIngredient))
            /\ Finish(slot, call, Returned(call.op, call.q, updatedIngredient))
    /\ UNCHANGED <<variant, recipes, categories, reviews, idCounter, now>>

\* BaseRepository.update up to its first docRef.get(): null when the
\* document is not there, which the service turns into UPDATE_FAILED
UpdateIngredientGet ==
    /\ variant = "repository"
    /\ \E slot \in SuspendedAt("update") :
        LET call == calls[slot]
        IN  IF ~has(ingredients, call.q.id)
            THEN Finish(slot, call, AppError(call.op, call.q, "Failed to update ingredient",
                                             "UPDATE_FAILED", 500))
            ELSE Suspend(slot, [call EXCEPT !.pc = "docRef.update"]) /\ UNCHANGED resp
    /\ UNCHANGED <<variant, stores, idCounter, now>>

\* docRef.update(updateData)
UpdateIngredientWrite ==
    /\ \E slot \in SuspendedAt("docRef.update") :
        LET call == calls[slot]
        IN  IF ~has(ingredients, call.q.id)
            THEN Finish(slot, call, StoreError(call.op, call.q)) /\ UNCHANGED ingredients
            ELSE /\ ingredients' = update(ingredients, call.q.id, call.q.data)
                 /\ Suspend(slot, [call EXCEPT !.pc = "docRef.get"])
                 /\ UNCHANGED resp
    /\ UNCHANGED <<variant, recipes, categories, reviews, idCounter, now>>

\* the second docRef.get() and docToEntity; null becomes UPDATE_FAILED
UpdateIngredientReget ==
    /\ \E slot \in SuspendedAt("docRef.get") :
        LET call == calls[slot]
            updatedIngredient == docToEntity(ingredients, call.q.id)
        IN  IF ~IsDefined(updatedIngredient)
            THEN Finish(slot, call, AppError(call.op, call.q, "Failed to update ingredient",
                                             "UPDATE_FAILED", 500))
            ELSE Finish(slot, call, Returned(call.op, call.q, Val(updatedIngredient)))
    /\ UNCHANGED <<variant, stores, idCounter, now>>

VanishNext ==
    \/ StartUpdateIngredient
    \/ MemUpdateIngredientResume
    \/ UpdateIngredientGet
    \/ UpdateIngredientWrite
    \/ UpdateIngredientReget
    \/ StartDeleteIngredient
    \/ UnlinkIngredient
    \/ MemDeleteIngredientRecord
    \/ DeleteIngredientGet
    \/ DeleteIngredientWrite

VanishSpec == IngredientRaceInit /\ [][VanishNext]_vars

\* a call of the service over the repository answers from a point between
\* its existence check and its write, and the record is gone
AnswersForVanished(slot, pcs) ==
    /\ variant = "repository"
    /\ calls[slot].op \in {"IngredientService.updateIngredient",
                           "IngredientService.deleteIngredient"}
    /\ calls[slot].pc \in pcs
    /\ ~has(ingredients, calls[slot].q.id)
    /\ calls'[slot].pc = "done"

FailedAsRaced(slot) ==
    /\ calls'[slot].answer.code =
         IF calls[slot].op = "IngredientService.updateIngredient"
         THEN "UPDATE_FAILED" ELSE "DELETE_FAILED"
    /\ ~has(ingredients', calls[slot].q.id)

\* C22: when the record was deleted by a concurrent request after the
\* service's existence check and before its write to the store, the update
\* call ends with UPDATE_FAILED and the delete call with DELETE_FAILED,
\* never with success or with an error of the store itself, and the call
\* does not store the record again
C22_VanishedRecordSurfacesAsUpdateOrDeleteFailed ==
    [][\A slot \in 1..MaxCalls :
        AnswersForVanished(slot, {"update", "docRef.update", "delete", "docRef.delete"})
        => FailedAsRaced(slot)]_vars

\* the same when the record vanished before BaseRepository.update or
\* BaseRepository.delete read the document
C22_VanishedBeforeTheRepositoryReadSurfacesAsFailed ==
    [][\A slot \in 1..MaxCalls :
        AnswersForVanished(slot, {"update", "delete"}) => FailedAsRaced(slot)]_vars

(***************************************************************************)
(* IngredientStepSpec: the same calls, await by await, one call at a time. *)
(***************************************************************************)
NoneRunning == \A slot \in 1..MaxCalls : calls[slot] = NoCall \/ Done(slot)

SerialCreateIngredient == NoneRunning /\ StartCreateIngredient

SerialDeleteIngredient == NoneRunning /\ StartDeleteIngredient

IngredientStepNext ==
    \/ SerialCreateIngredient
    \/ StoreIngredient
    \/ LinkIngredient
    \/ SerialDeleteIngredient
    \/ UnlinkIngredient
    \/ MemDeleteIngredientRecord
    \/ DeleteIngredientGet
    \/ DeleteIngredientWrite

IngredientStepSpec == IngredientRaceInit /\ [][IngredientStepNext]_vars

DeleteCalls ==
    {slot \in 1..MaxCalls : calls[slot].op = "IngredientService.deleteIngredient"}

\* the deleteIngredient call that is under way
RunningDeleteCalls == {slot \in DeleteCalls : calls[slot].pc # "done"}

ParentIds(store, slot) == get(store, calls[slot].ingredient.recipeId).ingredientIds

\* C23: deleteIngredient(id) of a stored ingredient whose recipe is stored,
\* with no other call under way, takes id out of the recipe's ingredientIds
\* leaving the other ids in their order (1), deletes the ingredient record
\* only after that (2), and when it has returned id is not in ingredientIds
\* and the ingredient cannot be fetched (3)
C23_DeleteIngredientUnlinksThenDeletes ==
    [][\A slot \in RunningDeleteCalls :
        LET id == calls[slot].q.id
            others(other) == other # id
        IN  /\ (calls[slot].pc = "removeIngredientFromRecipe" /\ calls'[slot].pc = "delete")
               => ParentIds(recipes', slot) = SelectSeq(ParentIds(recipes, slot), others)
            /\ (has(ingredients, id) /\ ~has(ingredients', id))
               => /\ calls[slot].pc \in {"delete", "docRef.delete"}
                  /\ id \notin Range(ParentIds(recipes, slot))
            /\ (calls'[slot].pc = "done" /\ calls'[slot].answer.err = NoError)
               => /\ id \notin Range(ParentIds(recipes', slot))
                  /\ findById(ingredients', id) = Undefined]_vars

\* the second of three linked ingredients has been deleted
C23_Witness ==
    \E slot \in DeleteCalls :
        /\ Succeeded(slot) /\ calls[slot].q.id = 2
        /\ ParentIds(recipes, slot) = <<1, 3>>
        /\ ~has(ingredients, 2)

(***************************************************************************)
(* The parent recipe of a new review or ingredient (checked on Spec).      *)
(***************************************************************************)
IsRecipeNotFoundError(r) == r.err = "Recipe not found" /\ r.status = 404

\* C24: createReview and createIngredient, one request at a time, for a
\* recipeId under which no recipe is stored fail with the recipe-not-found
\* error and leave the recipes, ingredients and reviews as they were; a
\* createReview that succeeds leaves every recipe as it was
C24_ChildOfMissingRecipeIsRefused ==
    [][/\ \A op \in {"ReviewService.createReview", "IngredientService.createIngredient"} :
            (Answers(op) /\ ~has(recipes, resp'.args.recipeId))
            => /\ IsRecipeNotFoundError(resp')
               /\ <<recipes, ingredients, reviews>>' = <<recipes, ingredients, reviews>>
       /\ (Answers("ReviewService.createReview") /\ resp'.err = NoError)
            => recipes' = recipes]_vars

\* a review with a rating that would not pass was refused for its recipe,
\* which was deleted while its children stayed
C24_Witness ==
    /\ resp.op = "ReviewService.createReview"
    /\ IsRecipeNotFoundError(resp)
    /\ ~has(recipes, resp.args.recipeId)
    /\ recipes # <<>>
    /\ resp.args.data.rating \notin 1..5
    /\ \E i \in 1..Len(reviews) : reviews[i].recipeId = resp.args.recipeId

(***************************************************************************)
(* RecipeLinkSpec: the requests that write a recipe's categoryIds and      *)
(* ingredientIds, one request at a time, each on behalf of the caller that *)
(* authenticate has identified.  The category and ingredient routes hand   *)
(* the service no caller.                                                  *)
(***************************************************************************)
\* categoryIds of a request body: any array of strings passes validation
CategoryIdLists == {<<>>, <<1>>, <<1, 1>>, <<2, 1>>}

\* the stored categories, under names of different lengths
LinkCategories ==
    [i \in 1..MaxCategories |->
        [id |-> i, name |-> [j \in 1..i |-> "a"], description |-> Undefined,
         createdAt |-> 0, updatedAt |-> 0]]

\* RecipeService.addCategoryToRecipe, for a recipe that is stored
addCategoryToRecipe(map, recipeId, categoryId) ==
    LET recipe == get(map, recipeId)
    IN  IF categoryId \in Range(recipe.categoryIds) THEN map
        ELSE set(map, With(recipe,
                    [categoryIds |-> Append(recipe.categoryIds, categoryId),
                     updatedAt |-> now]))

\* RecipeService.removeCategoryFromRecipe, for a recipe that is stored
removeCategoryFromRecipe(map, recipeId, categoryId) ==
    LET recipe == get(map, recipeId)
        kept(id) == id # categoryId
    IN  set(map, With(recipe, [categoryIds |-> filter(recipe.categoryIds, kept),
                               updatedAt |-> now]))

PostRecipe ==
    /\ Idle
    /\ idCounter.recipe <= MaxRecipes
    /\ \E userId \in Users, body \in CreateRecipeDtos, categoryIds \in CategoryIdLists :
        createRecipe(userId, With(body, [categoryIds |-> categoryIds]), now)
    /\ UNCHANGED <<calls, variant, categories, ingredients, reviews>>

PutRecipe ==
    /\ Idle
    /\ \E id \in RecipeIds, userId \in Users, categoryIds \in CategoryIdLists :
        updateRecipe(id, userId, [categoryIds |-> categoryIds])
    /\ UNCHANGED <<calls, variant, categories, ingredients, reviews, idCounter, now>>

\* POST /recipes/:recipeId/categories/:categoryId
PostRecipeCategory(caller) ==
    /\ Idle
    /\ \E recipeId \in RecipeIds, categoryId \in CategoryIds \cup {MaxCategories + 1} :
        LET op == "RecipeService.addCategoryToRecipe"
            q == [recipeId |-> recipeId, categoryId |-> categoryId]
        IN  IF ~has(categories, categoryId)
            THEN /\ resp' = CategoryNotFound("CategoryService.getCategoryById",
                                             [id |-> categoryId], variant)
                 /\ UNCHANGED recipes
            ELSE IF ~has(recipes, recipeId)
            THEN resp' = RecipeNotFound(op, q) /\ UNCHANGED recipes
            ELSE /\ recipes' = addCategoryToRecipe(recipes, recipeId, categoryId)
                 /\ resp' = Returned(op, q, get(recipes', recipeId))
    /\ UNCHANGED <<calls, variant, categories, ingredients, reviews, idCounter, now>>

\* DELETE /recipes/:recipeId/categories/:categoryId
DeleteRecipeCategory(caller) ==
    /\ Idle
    /\ \E recipeId \in RecipeIds, categoryId \in CategoryIds :
        LET op == "RecipeService.removeCategoryFromRecipe"
            q == [recipeId |-> recipeId, categoryId |-> categoryId]
        IN  IF ~has(recipes, recipeId)
            THEN resp' = RecipeNotFound(op, q) /\ UNCHANGED recipes
            ELSE /\ recipes' = removeCategoryFromRecipe(recipes, recipeId, categoryId)
                 /\ resp' = Returned(op, q, get(recipes', recipeId))
    /\ UNCHANGED <<calls, variant, categories, ingredients, reviews, idCounter, now>>

\* POST /:recipeId/ingredients
PostIngredient(caller) == idCounter.ingredient <= MaxIngredients /\ CreateIngredient

\* DELETE /ingredients/:id
DeleteIngredientRoute(caller) == DeleteIngredient

PostRecipeCategoryRoute == \E caller \in Users : PostRecipeCategory(caller)

DeleteRecipeCategoryRoute == \E caller \in Users : DeleteRecipeCategory(caller)

PostIngredientRoute == \E caller \in Users : PostIngredient(caller)

DeleteIngredientAsAnyone == \E caller \in Users : DeleteIngredientRoute(caller)

RecipeLinkInit ==
    /\ variant \in {"memory", "repository"}
    /\ recipes = <<>> /\ ingredients = <<>> /\ reviews = <<>>
    /\ categories = LinkCategories
    /\ idCounter = [recipe |-> 1, category |-> Len(categories) + 1, ingredient |-> 1,
                    review |-> 1]
    /\ now = 0
    /\ resp = NoResponse
    /\ calls = NoCalls

RecipeLinkNext ==
    \/ NextRequest
    \/ PostRecipe
    \/ PutRecipe
    \/ PostRecipeCategoryRoute
    \/ DeleteRecipeCategoryRoute
    \/ PostIngredientRoute
    \/ DeleteIngredientAsAnyone

RecipeLinkSpec == RecipeLinkInit /\ [][RecipeLinkNext]_vars

NoRepeatedId(list) == \A i, j \in 1..Len(list) : list[i] = list[j] => i = j

\* C25: in every reachable state no id occurs twice in a recipe's
\* categoryIds or in its ingredientIds
C25_NoIdTwiceInCategoryIdsOrIngredientIds ==
    \A i \in 1..Len(recipes) :
        NoRepeatedId(recipes[i].categoryIds) /\ NoRepeatedId(recipes[i].ingredientIds)

\* the part of it that the link operations keep: addCategoryToRecipe and
\* addIngredientToRecipe never add an id that is in the list,
\* removeCategoryFromRecipe takes out the named id and no other, and
\* ingredientIds never holds an id twice
C25_LinkOperationsAddNoIdTwice ==
    /\ [](\A i \in 1..Len(recipes) : NoRepeatedId(recipes[i].ingredientIds))
    /\ [][/\ (Answers("RecipeService.addCategoryToRecipe") /\ resp'.err = NoError)
            => LET before == get(recipes, resp'.args.recipeId).categoryIds
                   after == get(recipes', resp'.args.recipeId).categoryIds
               IN  after = IF resp'.args.categoryId \in Range(before) THEN before
                           ELSE Append(before, resp'.args.categoryId)
          /\ (Answers("RecipeService.removeCategoryFromRecipe") /\ resp'.err = NoError)
            => LET before == get(recipes, resp'.args.recipeId).categoryIds
                   after == get(recipes', resp'.args.recipeId).categoryIds
                   others(id) == id # resp'.args.categoryId
               IN  after = SelectSeq(before, others)]_vars

\* a request of the caller that writes a recipe
WritesRecipeFor(caller) ==
    \/ PostRecipeCategory(caller)
    \/ DeleteRecipeCategory(caller)
    \/ PostIngredient(caller)
    \/ DeleteIngredientRoute(caller)
    \/ PutRecipe /\ resp'.args.userId = caller

\* C30: a request of a caller who is not the recipe's createdBy (update of
\* the recipe, adding or removing a category, creating or deleting an
\* ingredient) leaves the recipe's categoryIds, ingredientIds and updatedAt
\* as they were
C30_OnlyTheOwnerChangesTheRecipe ==
    [][\A caller \in Users :
        WritesRecipeFor(caller)
        => \A i \in 1..Len(recipes) :
            recipes[i].createdBy # caller
            => /\ has(recipes', recipes[i].id)
               /\ LET after == get(recipes', recipes[i].id)
                  IN  /\ after.categoryIds = recipes[i].categoryIds
                      /\ after.ingredientIds = recipes[i].ingredientIds
                      /\ after.updatedAt = recipes[i].updatedAt]_vars

(***************************************************************************)
(* LowPageSpec: the list handlers that cut their page out of an array,     *)
(* asked for a page below 1.  The routes read parseInt(page) || 1, which   *)
(* lets a negative page through; a caller of the service can pass 0.       *)
(***************************************************************************)
PagesBelow1 == (1 - MaxPage)..0

GetAllRecipesBelowPage1 ==
    /\ variant = "memory"
    /\ Idle
    /\ \E q \in [page : PagesBelow1, limit : 1..MaxLimit, filters : {NoRecipeFilters}] :
        resp' = getAllRecipes(recipes, q)
    /\ UNCHANGED <<calls, variant, stores, idCounter, now>>

RecipeFindAllBelowPage1 ==
    /\ variant = "repository"
    /\ Idle
    /\ \E q \in [page : PagesBelow1, limit : 1..MaxLimit, filters : RecipeFilters,
                 sort : {Undefined}] :
        /\ needsMemoryFiltering(q.filters)
        /\ resp' = findAllRecipes(recipes, q)
    /\ UNCHANGED <<calls, variant, stores, idCounter, now>>

LowPageInit ==
    /\ variant \in {"memory", "repository"}
    /\ now = MaxTime
    /\ resp = NoResponse
    /\ calls = NoCalls
    /\ recipes \in StoresOf(StoredRecipes, MaxStored)
    /\ Admissible(recipes)
    /\ categories = <<>> /\ ingredients = <<>> /\ reviews = <<>>
    /\ idCounter = [recipe |-> Len(recipes) + 1, category |-> 1, ingredient |-> 1,
                    review |-> 1]

LowPageNext ==
    \/ GetAllRecipesBelowPage1
    \/ RecipeFindAllBelowPage1

LowPageSpec == LowPageInit /\ [][LowPageNext]_vars

AnsweredBelowPage1(pages) ==
    /\ resp.op \in {"RecipeService.getAllRecipes", "RecipeRepository.findAll"}
    /\ resp.args.page \in pages

EmptyPageOfAll ==
    /\ resp.err = NoError
    /\ resp.data = <<>>
    /\ resp.total = Cardinality(Matching(resp.op, resp.args))
    /\ resp.totalPages = ceilOf(resp.total, resp.args.limit)

\* C26: for a page number below 1 the paths that paginate in memory return
\* an empty data list, the total of all matching records, its number of
\* pages and no error
C26_PageBelow1IsEmpty ==
    AnsweredBelowPage1(PagesBelow1) => EmptyPageOfAll

\* the same of page 0 alone
C26_Page0IsEmpty ==
    AnsweredBelowPage1({0}) => EmptyPageOfAll

(***************************************************************************)
(* Concurrent deletes of one ingredient, and a delete that overtakes the   *)
(* createIngredient call of the same ingredient (IngredientRaceSpec).      *)
(***************************************************************************)
DeleteCallsOf(id) == {slot \in DeleteOf(id) : Succeeded(slot)}

\* C28: of two deleteIngredient calls for the same ingredient at most one
\* reports success (of two BaseRepository.delete(id) calls exactly one
\* returns true)
C28_ConcurrentDeletesNeverBothSucceed ==
    \A id \in IngredientIds : Cardinality(DeleteCallsOf(id)) <= 1

\* C29: once a deleteIngredient(x) call has returned success, x is in no
\* recipe's ingredientIds
C29_DeletedIngredientIsNeverLinkedAgain ==
    \A id \in IngredientIds :
        DeleteCallsOf(id) # {} =>
            \A i \in 1..Len(recipes) : id \notin Range(recipes[i].ingredientIds)

(***************************************************************************)
(* PageRaceSpec: getIngredientsByRecipeId served while createIngredient    *)
(* and deleteIngredient calls change the collection it reads.  The         *)
(* in-memory service and the repository's search path page one snapshot;   *)
(* paginateQuery reads the count and the page in two reads.                *)
(***************************************************************************)
ListFilters == {[search |-> Undefined], [search |-> Some(<<"a">>)]}

\* getIngredientsByRecipeId up to the end of recipeService.getRecipeById
StartGetIngredientsByRecipeId ==
    /\ \E slot \in FreeSlots :
       \E q \in [recipeId : RecipeIds, page : Pages, limit : 1..MaxLimit,
                 filters : ListFilters, sort : {Undefined}] :
        LET op == "IngredientService.getIngredientsByRecipeId"
            call == [op |-> op, pc |-> "findByRecipeId", q |-> q]
        IN  IF ~has(recipes, q.recipeId)
            THEN Finish(slot, call, RecipeNotFound(op, q))
            ELSE Suspend(slot, call) /\ UNCHANGED resp
    /\ UNCHANGED <<variant, stores, idCounter, now>>

\* in-memory: filter, sort and slice of the Map's values, in one step
MemGetIngredientsByRecipeId ==
    /\ variant = "memory"
    /\ \E slot \in SuspendedAt("findByRecipeId") :
        Finish(slot, calls[slot],
               getIngredientsByRecipeId(recipes, ingredients, calls[slot].q))
    /\ UNCHANGED <<variant, stores, idCounter, now>>

\* findByRecipeId with a search text: one query.get(), paged in memory
FindByRecipeIdSearch ==
    /\ variant = "repository"
    /\ \E slot \in SuspendedAt("findByRecipeId") :
        /\ Truthy(calls[slot].q.filters.search)
        /\ Finish(slot, calls[slot],
                  findIngredientsByRecipeId(ingredients, calls[slot].q))
    /\ UNCHANGED <<variant, stores, idCounter, now>>

\* paginateQuery's first read: query.count().get()
PaginateQueryCount ==
    /\ variant = "repository"
    /\ \E slot \in SuspendedAt("findByRecipeId") :
        LET call == calls[slot]
            docs == {i \in Range(ingredients) : i.recipeId = call.q.recipeId}
        IN  /\ ~Truthy(call.q.filters.search)
            /\ Suspend(slot, [call EXCEPT !.pc = "offset.limit.get"]
                                 @@ [total |-> queryCount(docs)])
    /\ UNCHANGED <<variant, stores, idCounter, now, resp>>

\* paginateQuery's second read: query.offset(offset).limit(limit).get(),
\* answered with the total of the first read
PaginateQueryPage ==
    /\ \E slot \in SuspendedAt("offset.limit.get") :
        LET call == calls[slot]
            q == call.q
            docs == {i \in Range(ingredients) : i.recipeId = q.recipeId}
            offset == (q.page - 1) * q.limit
            data == queryOffsetLimit(docs, DefaultIngredientSort, offset, q.limit)
            totalPages == ceilDiv(call.total, q.limit)
        IN  Finish(slot, call,
                   PaginatedResponse("IngredientRepository.findByRecipeId", q, data,
                                     call.total, totalPages))
    /\ UNCHANGED <<variant, stores, idCounter, now>>

PageRaceNext ==
    \/ IngredientRaceNext
    \/ StartGetIngredientsByRecipeId
    \/ MemGetIngredientsByRecipeId
    \/ FindByRecipeIdSearch
    \/ PaginateQueryCount
    \/ PaginateQueryPage

PageRaceSpec == IngredientRaceInit /\ [][PageRaceNext]_vars

ListCalls ==
    {slot \in 1..MaxCalls :
        calls[slot].op = "IngredientService.getIngredientsByRecipeId"}

\* the records a page of this total, page number and limit holds
PageLength(total, page, limit) ==
    LET left == total - (page - 1) * limit
    IN  IF left <= 0 THEN 0 ELSE IF left < limit THEN left ELSE limit

SelfConsistent(a) == Len(a.data) = PageLength(a.total, a.args.page, a.args.limit)

\* the call paged one snapshot of the collection
FromOneSnapshot(slot) ==
    variant = "memory" \/ Truthy(calls[slot].q.filters.search)

\* C27: every paginated response is self-consistent,
\* len(data) = min(limit, max(0, total - (page - 1) * limit)), also when
\* other calls create or delete matching records while the query runs
C27_EveryPageAgreesWithItsTotal ==
    \A slot \in ListCalls : Succeeded(slot) => SelfConsistent(calls[slot].answer)

\* the responses paged from one snapshot are self-consistent
C27_SnapshotPagesAgreeWithTheirTotal ==
    \A slot \in ListCalls :
        Succeeded(slot) /\ FromOneSnapshot(slot) => SelfConsistent(calls[slot].answer)

====
